---- MODULE Spec2Model ----
(***************************************************************************)
(* State-machine model of the workspace-multiselect plugin: the Selection  *)
(* Set (dragSelection), the Composite Draggable (MultiselectDraggable),    *)
(* the mode switch (MultiselectControls), the bulk commands (context menu  *)
(* and keyboard shortcuts) and multi-field propagation, together with the  *)
(* part of the host block graph those read and write.                      *)
(***************************************************************************)
EXTENDS Integers, Sequences, FiniteSets, TLC

(* ----------------------------- bounds ---------------------------------- *)
\* Identifiers the host may hand out in one run (objects 1..MaxObj).
MaxObj == 6
\* Number of updateDraggables_ calls counted per object in SpecToggle.
MaxToggles == 2
\* Number of queued native 'selected' notifications kept in the model.
MaxPending == 1
\* User gestures (clicks, key presses, menu choices) in one run.
MaxGestures == 4

Ids == 1..MaxObj
\* "no object" (null / undefined in the source).
Null == 0
\* Blockly.getSelected() being the surface's MultiselectDraggable.
MultiDraggable == -1

\* Blockly.getSelected() being the MultiselectDraggable of the second
\* workspace.
OtherDraggable == -2

\* selected instanceof MultiselectDraggable
IsMultiselectDraggable(x) == x \in {MultiDraggable, OtherDraggable}

\* Blockly.Events.CHANGE and Blockly.Events.BLOCK_FIELD_INTERMEDIATE_CHANGE
EventTypes == {"change", "block_field_intermediate_change"}

\* No field event is waiting for delivery.
NoEvent ==
  [type |-> "none", blockId |-> Null, newValue |-> "old", recordUndo |-> FALSE,
   group |-> 0]

Types == {"T", "U", "drag_to_dupe"}
FieldValues == {"old", "new"}
Coordinates == {<<x, y>> : x \in -1..3, y \in -1..3}

VARIABLES
  db,                   \* host workspace: id -> block / workspace comment
  nextId,               \* host id generator: next identifier to hand out
  selected,             \* Blockly.getSelected(): Null, an id or MultiDraggable
  mainWorkspace,        \* Blockly.getMainWorkspace() is this surface
  maxInstances,         \* workspace.options.maxInstances: type -> limit
  prototype,            \* patched host methods, originals each instance saved
  highlighted,          \* objects carrying the "selected" highlight
  group,                \* Blockly.Events.getGroup(): 0 = none, else group id
  nextGroup,            \* next fresh event-group id
  pendingSelected,      \* queued Blockly.Events.SELECTED notifications
  dragSelection,        \* dragSelectionWeakMap.get(workspace)
  subDraggables,        \* MultiselectDraggable.subDraggables: member -> pos
  topSubDraggables,     \* MultiselectDraggable.topSubDraggables
  mdConnectionDBList,   \* MultiselectDraggable.connectionDBList
  inGroup,              \* MultiselectDraggable.inGroup
  dragging,             \* a composite drag is in progress (host Dragger)
  inMultipleSelectionMode, \* inMultipleSelectionModeWeakMap.get(workspace)
  justUnselectedBlock_, \* MultiselectControls.justUnselectedBlock_
  lastSelectedElement_, \* MultiselectControls.lastSelectedElement_
  inPasteShortcut,      \* inPasteShortcut.get(workspace)
  hasDisableWorkspaceDrag_, \* MultiselectControls.hasDisableWorkspaceDrag_
  moveDrag,             \* workspace.options.moveOptions.drag
  dragSelect_,          \* MultiselectControls.dragSelect_ is attached
  dragSelects,          \* DragSelect instances started and not stopped
  origMoveDrag,         \* moveOptions.drag as the workspace was injected
  controls_,            \* Multiselect.controls_ is set (init ran, not disposed)
  other,                \* plugin state of a second workspace, if there is one
  doubleClickPid_,      \* workspace.doubleClickPid_: handle, 0 = undefined
  doubleClickBlock_,    \* workspace.doubleClickBlock_
  timers,               \* handles of the host's pending setTimeout callbacks
  copyData,             \* global copyData (insertion-ordered Set of snapshots)
  connectionDBList,     \* global connectionDBList (pairs of payload indexes)
  timestamp,            \* global timestamp of this tab
  localStorage,         \* blocklyStashMulti / Connection / Time of the origin
  now,                  \* Date.now()
  otherTab,             \* copyData, connectionDBList, timestamp of a second tab
  lastCopy,             \* payload of the most recent copy or cut in any tab
  multiFieldUpdate_,    \* Multiselect.multiFieldUpdate_
  changeEvent,          \* field event fired by the host, not yet delivered
  gestures,             \* user gestures made so far
  hist                  \* observation record of the last operation

vars == <<db, nextId, selected, mainWorkspace, maxInstances, prototype,
          highlighted, group,
          nextGroup,
          pendingSelected, dragSelection, subDraggables, topSubDraggables,
          mdConnectionDBList, inGroup, dragging, inMultipleSelectionMode,
          justUnselectedBlock_, lastSelectedElement_, inPasteShortcut,
          hasDisableWorkspaceDrag_, moveDrag, dragSelect_, dragSelects,
          origMoveDrag, controls_, other, doubleClickPid_,
          doubleClickBlock_, timers, copyData, connectionDBList, timestamp,
          localStorage, now, otherTab, lastCopy, multiFieldUpdate_,
          changeEvent, gestures, hist>>

(* ------------------------- host block graph ---------------------------- *)
\* What the host's drag strategy of an object remembers from startDrag:
\* nothing before the object's first drag.
NoStart ==
  [set |-> FALSE, loc |-> <<0, 0>>, parent |-> 0, conn |-> "none",
   off |-> <<0, 0>>]

\* An identifier the host has not handed out, or whose object never existed.
NoObject ==
  [live |-> FALSE, kind |-> "block", type |-> "T", parent |-> Null,
   conn |-> "none", deletable |-> FALSE, movable |-> FALSE, shadow |-> FALSE,
   output |-> FALSE, field |-> "old", hasField |-> TRUE, collapsed |-> FALSE,
   enabled |-> TRUE, pos |-> <<0, 0>>, start |-> NoStart]

\* A rendered block: parent is the block it is connected under, conn says
\* whether through the parent's next connection ("next") or one of its
\* inputs ("input"); output says it has an output connection.
Block(type, parent, conn, deletable, movable, output, pos) ==
  [NoObject EXCEPT !.live = TRUE, !.type = type, !.parent = parent,
                   !.conn = conn, !.deletable = deletable,
                   !.movable = movable, !.output = output, !.pos = pos]

\* A rendered workspace comment: no parent, no connections.
Comment(deletable, movable, pos) ==
  [NoObject EXCEPT !.live = TRUE, !.kind = "comment", !.deletable = deletable,
                   !.movable = movable, !.pos = pos]

Live(d) == {i \in Ids : d[i].live}
IsBlock(d, i) == i \in Ids /\ d[i].live /\ d[i].kind = "block"
IsComment(d, i) == i \in Ids /\ d[i].live /\ d[i].kind = "comment"

\* workspace.getBlockById(id)
getBlockById(d, id) == IF IsBlock(d, id) THEN id ELSE Null

\* workspace.getCommentById(id)
getCommentById(d, id) == IF IsComment(d, id) THEN id ELSE Null

\* getByID(workspace, id)
getByID(d, id) ==
  IF getBlockById(d, id) # Null THEN getBlockById(d, id)
  ELSE IF getCommentById(d, id) # Null THEN getCommentById(d, id)
  ELSE Null

\* block.getParent()
getParent(d, b) == IF b \in Ids THEN d[b].parent ELSE Null

\* block.getNextBlock()
getNextBlock(d, b) ==
  LET n == {c \in Ids : d[c].live /\ d[c].parent = b /\ d[c].conn = "next"}
  IN IF n = {} THEN Null ELSE CHOOSE c \in n : TRUE

\* block.getSurroundParent(): the first ancestor reached through an input.
RECURSIVE getSurroundParent(_, _)
getSurroundParent(d, b) ==
  LET p == getParent(d, b)
  IN IF p = Null THEN Null
     ELSE IF getNextBlock(d, p) = b THEN getSurroundParent(d, p)
     ELSE p

\* block.isDeletable() / comment.isDeletable()
isDeletable(d, i) == i \in Ids /\ d[i].live /\ d[i].deletable /\ ~d[i].shadow

\* block.isMovable() / comment.isMovable()
isMovable(d, i) == i \in Ids /\ d[i].live /\ d[i].movable /\ ~d[i].shadow

\* block.isShadow()
isShadow(d, i) == i \in Ids /\ d[i].shadow

\* Blocks connected under b, b excluded (block.getDescendants minus itself).
RECURSIVE Below(_, _)
Below(d, b) ==
  LET ch == {c \in Ids : d[c].live /\ d[c].parent = b}
  IN ch \cup UNION {Below(d, c) : c \in ch}

(* ------------------------ Containment Oracle --------------------------- *)
hasSelectedParentNoWalk(d, sel, block, move) ==
  LET p == IF move THEN getParent(d, block) ELSE getSurroundParent(d, block)
  IN p # Null /\ p \in sel

\* hasSelectedParent(block, move): walks getParent (move) or
\* getSurroundParent and answers true at the first selected ancestor.
RECURSIVE hasSelectedParent(_, _, _, _)
hasSelectedParent(d, sel, block, move) ==
  LET p == IF move THEN getParent(d, block) ELSE getSurroundParent(d, block)
  IN IF p = Null THEN FALSE
     ELSE IF p \in sel THEN TRUE
     ELSE hasSelectedParent(d, sel, p, move)

(* ------------------------ initial workspaces --------------------------- *)
\* Block 1 holding the output block 2 in an input, an independent block 3
\* of another type and a workspace comment 4.
WorldNested ==
  [i \in Ids |->
     CASE i = 1 -> Block("T", Null, "none", TRUE, TRUE, FALSE, <<0, 0>>)
       [] i = 2 -> Block("T", 1, "input", TRUE, TRUE, TRUE, <<1, 1>>)
       [] i = 3 -> Block("U", Null, "none", TRUE, TRUE, FALSE, <<3, 0>>)
       [] i = 4 -> Comment(TRUE, TRUE, <<0, 3>>)
       [] OTHER -> NoObject]

\* A stack 1 -> 2 (2 is the next block of 1), a free block 3 of another
\* type and a drag_to_dupe block 4.
WorldStack ==
  [i \in Ids |->
     CASE i = 1 -> Block("T", Null, "none", TRUE, TRUE, FALSE, <<0, 0>>)
       [] i = 2 -> Block("T", 1, "next", TRUE, TRUE, FALSE, <<0, 1>>)
       [] i = 3 -> Block("U", Null, "none", TRUE, TRUE, FALSE, <<2, 0>>)
       [] i = 4 -> Block("drag_to_dupe", Null, "none", TRUE, TRUE, FALSE,
                         <<3, 3>>)
       [] OTHER -> NoObject]

\* A movable but not deletable block 1 with next block 2, a block 3 that is
\* neither movable nor deletable, and a comment 4 that cannot be deleted.
WorldFlags ==
  [i \in Ids |->
     CASE i = 1 -> Block("T", Null, "none", FALSE, TRUE, FALSE, <<0, 0>>)
       [] i = 2 -> Block("T", 1, "next", TRUE, TRUE, FALSE, <<0, 1>>)
       [] i = 3 -> Block("T", Null, "none", FALSE, FALSE, FALSE, <<3, 0>>)
       [] i = 4 -> Comment(FALSE, TRUE, <<0, 3>>)
       [] OTHER -> NoObject]

\* Block 1 holding the output block 2 in an input, and a comment 3.
WorldPair ==
  [i \in Ids |->
     CASE i = 1 -> Block("T", Null, "none", TRUE, TRUE, FALSE, <<0, 0>>)
       [] i = 2 -> Block("T", 1, "input", TRUE, TRUE, TRUE, <<1, 1>>)
       [] i = 3 -> Comment(TRUE, TRUE, <<0, 3>>)
       [] OTHER -> NoObject]

\* A drag_to_dupe block 1 and a stack 2 -> 3.
WorldDupe ==
  [i \in Ids |->
     CASE i = 1 -> Block("drag_to_dupe", Null, "none", TRUE, TRUE, FALSE,
                         <<0, 0>>)
       [] i = 2 -> Block("T", Null, "none", TRUE, TRUE, FALSE, <<2, 0>>)
       [] i = 3 -> Block("T", 2, "next", TRUE, TRUE, FALSE, <<2, 1>>)
       [] OTHER -> NoObject]

\* The workspaces the command machine starts from.
SmallWorlds == {WorldPair, WorldDupe}

Worlds == {WorldNested, WorldStack, WorldFlags}

\* The first identifier the host has not handed out in workspace w.
FirstFree(w) ==
  IF Live(w) = {} THEN 1
  ELSE 1 + CHOOSE m \in Live(w) : \A i \in Live(w) : i <= m

(* ------------------------ Composite Draggable -------------------------- *)
\* block.getRelativeToSurfaceXY()
getRelativeToSurfaceXY(d, i) == d[i].pos

\* MultiselectDraggable.addSubDraggable_: Map.set(member, position).
addSubDraggable_(sub, d, x) ==
  [i \in (DOMAIN sub) \cup {x} |->
     IF i = x THEN getRelativeToSurfaceXY(d, x) ELSE sub[i]]

\* MultiselectDraggable.removeSubDraggable_: Map.delete(member).
removeSubDraggable_(sub, x) == [i \in (DOMAIN sub) \ {x} |-> sub[i]]

\* MultiselectDraggable.clearAll_: removes every member.
clearAll_(sub) == [i \in {} |-> <<0, 0>>]

\* The empty member map of a freshly constructed MultiselectDraggable.
NoSubDraggables == [i \in {} |-> <<0, 0>>]

\* The member map holding exactly the objects of S at their positions.
SubDraggablesOf(d, S) == [i \in S |-> getRelativeToSurfaceXY(d, i)]

(* ------------------------ patched host methods -------------------------- *)
\* The Multiselect instances that may exist: one on this workspace and one
\* on a second workspace.
Instances == {1, 2}

\* Blockly before any plugin instance exists: both methods are the host's,
\* no instance has saved an original.
Unpatched ==
  [bumpNeighbours |-> "host", handleWsStart |-> "host",
   origBumpNeighbours |-> [i \in Instances |-> "unset"],
   origHandleWsStart_ |-> [i \in Instances |-> "unset"],
   phase |-> [i \in Instances |-> "none"]]

\* new Multiselect(workspace): the constructor saves the current
\* Gesture.prototype.handleWsStart in origHandleWsStart_.
newMultiselect(p, i) ==
  [p EXCEPT !.origHandleWsStart_[i] = p.handleWsStart,
            !.origBumpNeighbours[i] = "unset",
            !.phase[i] = "constructed"]

\* Multiselect.init(options): useDoubleClick wraps handleWsStart (a wrapped
\* function is not wrapped again); without options.bumpNeighbours the
\* current BlockSvg.prototype.bumpNeighbours is saved and replaced by an
\* empty function.
initPatches(p, i, useDoubleClick, bumpNeighbours) ==
  [p EXCEPT !.handleWsStart = IF useDoubleClick THEN "wrapped" ELSE @,
            !.origBumpNeighbours[i] =
               IF bumpNeighbours THEN @ ELSE p.bumpNeighbours,
            !.bumpNeighbours = IF bumpNeighbours THEN @ ELSE "empty",
            !.phase[i] = "initialized"]

\* Multiselect.dispose(): useDoubleClick_(false) assigns origHandleWsStart_
\* and origBumpNeighbours is assigned when the instance saved one.
disposePatches(p, i) ==
  [p EXCEPT !.handleWsStart = p.origHandleWsStart_[i],
            !.bumpNeighbours = IF p.origBumpNeighbours[i] # "unset"
                                 THEN p.origBumpNeighbours[i] ELSE @,
            !.phase[i] = "disposed"]

\* Blockly after the instance of this workspace, and after it the one of a
\* second workspace if there is one, was constructed and initialized with
\* the default options.
Patched(second) ==
  LET first == initPatches(newMultiselect(Unpatched, 1), 1, FALSE, FALSE)
  IN IF second
       THEN initPatches(newMultiselect(first, 2), 2, FALSE, FALSE)
       ELSE first

\* The objects that carry the "selected" highlight when the composite holds
\* the members of sub and the native selection is native: every member
\* (updateDraggables_ highlights what it adds) and a natively selected object.
Highlit(sub, native) ==
  DOMAIN sub \cup (IF native \in Ids THEN {native} ELSE {})

\* The highlight after Blockly.common.setSelected(new) with the native
\* selection old: the host calls old.unselect() and new.select().  A block
\* or comment drops and takes its highlight; MultiselectDraggable.select()
\* highlights every member of sub, MultiselectDraggable.unselect() leaves
\* the members as they are.
setSelectedHighlight(h, sub, old, new) ==
  IF new = old THEN h
  ELSE LET dropped == IF old \in Ids THEN h \ {old} ELSE h
       IN IF new \in Ids THEN dropped \cup {new}
          ELSE IF new = MultiDraggable THEN dropped \cup DOMAIN sub
          ELSE dropped

\* The highlight after updateDraggables_ calls that turned the member map
\* sub into sub2: updateSelected(false) / unselect() on a removed member,
\* updateSelected(true) / select() on an added one.
updateDraggablesHighlight(h, sub, sub2) ==
  (h \ (DOMAIN sub \ DOMAIN sub2)) \cup (DOMAIN sub2 \ DOMAIN sub)

\* workspace.options.maxInstances of a workspace without limits.
NoLimit == [type \in {"T", "U", "drag_to_dupe"} |->
              [limited |-> FALSE, max |-> 0]]

\* workspace.isCapacityAvailable(data.typeCounts): for every type the
\* blocks of the snapshot fit under the limit beside those on the
\* workspace.
isCapacityAvailable(d, limits, data) ==
  \A type \in DOMAIN limits :
    limits[type].limited =>
      Cardinality({k \in 1..Len(data.blocks) : data.blocks[k].type = type})
        + Cardinality({i \in Live(d) : IsBlock(d, i) /\ d[i].type = type})
          <= limits[type].max

(* --------------------------- Selection Store --------------------------- *)
\* The capability test of updateDraggables_ (the early returns).
Eligible(d, x) ==
  /\ x # Null
  /\ IF d[x].kind = "block"
       THEN /\ (isDeletable(d, x) \/ isMovable(d, x)) /\ ~isShadow(d, x)
            /\ d[x].type # "drag_to_dupe"
       ELSE isMovable(d, x) \/ isDeletable(d, x)

updateDraggablesAddOnly(st, d, draggable) ==
  IF ~Eligible(d, draggable) THEN st
  ELSE [sel |-> st.sel \cup {draggable},
        sub |-> addSubDraggable_(st.sub, d, draggable),
        just |-> IF d[draggable].kind = "block" THEN Null ELSE st.just]

\* MultiselectControls.updateDraggables_(draggable) on the plugin state
\* st = [sel: dragSelection, sub: subDraggables, just: justUnselectedBlock_].
updateDraggables_(st, d, draggable) ==
  IF ~Eligible(d, draggable) THEN st
  ELSE IF draggable \in st.sel
    THEN [sel |-> st.sel \ {draggable},
          sub |-> removeSubDraggable_(st.sub, draggable),
          just |-> IF d[draggable].kind = "block" THEN draggable ELSE st.just]
    ELSE [sel |-> st.sel \cup {draggable},
          sub |-> addSubDraggable_(st.sub, d, draggable),
          just |-> IF d[draggable].kind = "block" THEN Null ELSE st.just]

\* The plugin state updateDraggables_ reads and writes.
SelState == [sel |-> dragSelection, sub |-> subDraggables,
             just |-> justUnselectedBlock_]

\* localStorage of the origin before any copy: getItem returns null.
NoStorage == [present |-> FALSE, multi |-> <<>>, conn |-> <<>>, time |-> 0]

\* dataCopyToStorage(): the three items written by a copy at time t.
dataCopyToStorage(data, conns, t) ==
  [present |-> TRUE, multi |-> data, conn |-> conns, time |-> t]

\* The test of dataCopyFromStorage and blockNumGetFromStorage:
\* storage && parseInt(time) > timestamp.
storageIsNewer(st, ts) ==
  st.present /\ st.time > ts

\* dataCopyFromStorage(): the module state [copyData, conn, timestamp] of a
\* tab after it looked at the storage st.
dataCopyFromStorage(st, data, conns, ts) ==
  IF storageIsNewer(st, ts)
    THEN [copyData |-> st.multi, conn |-> st.conn, timestamp |-> st.time]
    ELSE [copyData |-> data, conn |-> conns, timestamp |-> ts]

\* blockNumGetFromStorage(true)
blockNumGetFromStorage(st, data, ts) ==
  IF storageIsNewer(st, ts) THEN Len(st.multi) ELSE Len(data)

\* The module state of a tab whose script has just been loaded.
NoTab == [copyData |-> <<>>, conn |-> <<>>, timestamp |-> 0]

\* One tab only, nothing copied yet.
SingleTab ==
  /\ timestamp = 0
  /\ localStorage = NoStorage
  /\ now = 1
  /\ otherTab = NoTab
  /\ lastCopy = NoStorage

\* The end of a copy or cut callback with cross-tab sharing on:
\* dataCopyToStorage() of what the callback has put in copyData and
\* connectionDBList.
CopyToStorage(data, conns) ==
  /\ timestamp' = now
  /\ localStorage' = dataCopyToStorage(data, conns, now)
  /\ lastCopy' = dataCopyToStorage(data, conns, now)
  /\ UNCHANGED <<now, otherTab>>

\* What dataCopyFromStorage() leaves in this tab.
Loaded == dataCopyFromStorage(localStorage, copyData, connectionDBList,
                              timestamp)

\* There is no second workspace with the plugin.
NoSurface ==
  [present |-> FALSE, mode |-> FALSE, sel |-> {}, sub |-> NoSubDraggables,
   just |-> Null, last |-> Null, inPaste |-> FALSE]

(* --------------------- state after construction ------------------------ *)
\* The double-click detector of the workspace before the first pointer-down:
\* no timer is pending and no block is remembered.
Idle ==
  /\ doubleClickPid_ = 0
  /\ doubleClickBlock_ = Null
  /\ timers = {}

\* Everything the constructors of Multiselect, MultiselectControls and
\* MultiselectDraggable set, for a workspace holding the objects of w that
\* was injected with options.moveOptions.drag = drag.
ConstructedAt(w, drag, limits) ==
  /\ db = w
  /\ nextId = FirstFree(db)
  /\ selected = Null
  /\ mainWorkspace = TRUE /\ maxInstances = limits
  /\ group = 0
  /\ nextGroup = 1
  /\ pendingSelected = 0
  /\ dragSelection = {}
  /\ subDraggables = NoSubDraggables
  /\ highlighted = Highlit(subDraggables, selected)
  /\ prototype = Patched(FALSE)
  /\ topSubDraggables = <<>>
  /\ mdConnectionDBList = <<>>
  /\ inGroup = FALSE
  /\ dragging = FALSE
  /\ inMultipleSelectionMode = FALSE
  /\ justUnselectedBlock_ = Null
  /\ lastSelectedElement_ = Null
  /\ inPasteShortcut = FALSE
  /\ hasDisableWorkspaceDrag_ = FALSE
  /\ moveDrag = drag
  /\ dragSelect_ = FALSE /\ dragSelects = 0
  /\ origMoveDrag = drag
  /\ controls_ = TRUE
  /\ other = NoSurface /\ Idle
  /\ copyData = <<>>
  /\ connectionDBList = <<>>
  /\ SingleTab
  /\ multiFieldUpdate_ = TRUE
  /\ changeEvent = NoEvent

\* The same for a workspace injected with move.drag on (the default).
ConstructedWith(w, drag) ==
  ConstructedAt(w, drag, NoLimit) /\ gestures = 0

Constructed(w) == ConstructedWith(w, TRUE)

(* --------------------- host operations on objects ---------------------- *)
\* The elements of S in ascending order.
RECURSIVE SortedSeq(_)
SortedSeq(S) ==
  IF S = {} THEN <<>>
  ELSE LET m == CHOOSE x \in S : \A y \in S : x <= y
       IN <<m>> \o SortedSeq(S \ {m})

\* Every order in which the elements of S can be visited.
RECURSIVE Perms(_)
Perms(S) ==
  IF S = {} THEN {<<>>}
  ELSE UNION {{<<x>> \o q : q \in Perms(S \ {x})} : x \in S}

\* The blocks saved and disposed together with b: everything connected
\* under b except the stack that hangs on b's next connection.
Inner(d, b) ==
  LET n == getNextBlock(d, b)
  IN IF n = Null THEN Below(d, b) ELSE Below(d, b) \ ({n} \cup Below(d, n))

\* block.dispose(healStack, animate) and comment.dispose(): a block goes
\* with the blocks in its inputs; with healStack its next block takes its
\* place under its parent, without it the next stack goes as well.
Dispose(d, x, healStack) ==
  IF x = Null \/ ~d[x].live THEN d
  ELSE LET n == getNextBlock(d, x)
           gone == IF healStack THEN {x} \cup Inner(d, x)
                   ELSE {x} \cup Below(d, x)
       IN [i \in Ids |->
             IF i \in gone
               THEN [d[i] EXCEPT !.live = FALSE, !.parent = Null,
                                 !.conn = "none"]
             ELSE IF healStack /\ i = n
               THEN [d[i] EXCEPT !.parent = d[x].parent, !.conn = d[x].conn]
             ELSE d[i]]

\* No operation observed yet / the last step was not a bulk command.
NoHist == [op |-> "none", target |-> Null, pre |-> {}, preSelected |-> Null,
           want |-> {}, nested |-> {}, acted |-> {}, created |-> {},
           threw |-> FALSE]

\* The observation record of a bulk command: the object it was invoked
\* against, the Selection Set and native selection it found, the members
\* its own check accepts, the members with a selected surround ancestor,
\* the objects it applied itself to and the objects it created.
Observed(op, target, want, nested, acted, created, threw) ==
  [op |-> op, target |-> target, pre |-> dragSelection,
   preSelected |-> selected, want |-> want, nested |-> nested,
   acted |-> acted, created |-> created, threw |-> threw]

\* Members of sel that have a selected ancestor along surround parents.
Nested(d, sel) ==
  {m \in sel : IsBlock(d, m) /\ hasSelectedParent(d, sel, m, FALSE)}

\* Native selection after objects were disposed: disposing the selected
\* object unselects it.
AfterDispose(d, sel) ==
  IF sel \in Ids /\ ~d[sel].live THEN Null ELSE sel

\* Orders in which a handler walks selected.subDraggables.
Orders ==
  IF selected = MultiDraggable THEN Perms(DOMAIN subDraggables) ELSE {<<>>}

\* Blockly.common.setSelected(x) queues a SELECTED notification when the
\* native selection changes.
QueueAlways(pending, old, new) ==
  IF pending < MaxPending THEN pending + 1 ELSE pending

Queue(pending, old, new) ==
  IF old = new THEN pending
  ELSE IF pending < MaxPending THEN pending + 1 ELSE pending

(* ------------------------ bulk command: delete ------------------------- *)
\* deleteShortcut.check(element)
deleteShortcutCheck(d, sel, element) ==
  IF element \notin Ids THEN FALSE
  ELSE IF d[element].kind = "block"
    THEN isDeletable(d, element) /\ ~hasSelectedParent(d, sel, element, FALSE)
    ELSE isDeletable(d, element)

\* deleteOption.check(block) of the context menu.
deleteOptionCheck(d, sel, block) ==
  /\ block \in Ids
  /\ isDeletable(d, block)
  /\ ~hasSelectedParent(d, sel, block, FALSE)

deleteApplySwapped(d, element) ==
  IF d[element].kind = "block"
    THEN Dispose(d, element, d[element].output)
    ELSE Dispose(d, element, FALSE)

\* apply(element) of the delete callbacks: output blocks are disposed
\* without healing, statement blocks with healing, comments plainly.
deleteApply(d, element) ==
  IF d[element].kind = "block"
    THEN Dispose(d, element, ~d[element].output)
    ELSE Dispose(d, element, FALSE)

\* The loop of deleteShortcut.callback over selected.subDraggables, visited
\* in the given order; r = [db, acted].
RECURSIVE deleteShortcutLoop(_, _, _)
deleteShortcutLoop(r, sel, order) ==
  IF order = <<>> THEN r
  ELSE LET e == Head(order)
           ok == deleteShortcutCheck(r.db, sel, e)
       IN deleteShortcutLoop(
            [db |-> IF ok THEN deleteApply(r.db, e) ELSE r.db,
             acted |-> IF ok THEN r.acted \cup {e} ELSE r.acted],
            sel, Tail(order))

\* The loop of deleteOption.callback: only blocks are applied.
RECURSIVE deleteOptionLoop(_, _, _)
deleteOptionLoop(r, sel, order) ==
  IF order = <<>> THEN r
  ELSE LET e == Head(order)
           ok == r.db[e].kind = "block" /\ deleteOptionCheck(r.db, sel, e)
       IN deleteOptionLoop(
            [db |-> IF ok THEN deleteApply(r.db, e) ELSE r.db,
             acted |-> IF ok THEN r.acted \cup {e} ELSE r.acted],
            sel, Tail(order))

\* The loop of MultiselectDraggable.dispose over subDraggables;
\* r = [db, sel, sub, acted].
RECURSIVE disposeLoop(_, _)
disposeLoop(r, order) ==
  IF order = <<>> THEN r
  ELSE LET e == Head(order)
       IN IF ~isDeletable(r.db, e) THEN disposeLoop(r, Tail(order))
          ELSE disposeLoop(
                 [db |-> IF r.db[e].kind = "block"
                           THEN Dispose(r.db, e, TRUE)
                           ELSE Dispose(r.db, e, FALSE),
                  sel |-> r.sel \ {e},
                  sub |-> removeSubDraggable_(r.sub, e),
                  acted |-> r.acted \cup {e}],
                 Tail(order))

(* ------------------------------ clipboard ------------------------------ *)
\* Array.indexOf, counted from 1; 0 when x is not in the list.
IndexOf(list, x) ==
  IF \E k \in 1..Len(list) : list[k] = x
    THEN CHOOSE k \in 1..Len(list) :
           list[k] = x /\ \A j \in 1..(k - 1) : list[j] # x
    ELSE 0

\* One block (or the comment) as saved in a snapshot: its id and state, and
\* for a block saved under the root the index of the block it hangs under.
SaveBlock(d, i, up, conn) ==
  [id |-> i, type |-> d[i].type, field |-> d[i].field,
   hasField |-> d[i].hasField, collapsed |-> d[i].collapsed,
   enabled |-> d[i].enabled, deletable |-> d[i].deletable,
   movable |-> d[i].movable,
   shadow |-> d[i].shadow, output |-> d[i].output, pos |-> d[i].pos,
   up |-> up, conn |-> conn]

\* element.toCopyData(): the object with the blocks in its inputs, without
\* the stack on its next connection (addNextBlocks: false).
toCopyData(d, x) ==
  LET in == SortedSeq(Inner(d, x))
  IN [kind |-> d[x].kind,
      blocks |-> <<SaveBlock(d, x, 0, "none")>> \o
                 [k \in 1..Len(in) |->
                    SaveBlock(d, in[k], 1 + IndexOf(in, d[in[k]].parent),
                              d[in[k]].conn)]]

\* The ids the host gives the saved blocks: a saved id is kept unless an
\* object with that id exists (or freshRoot asks a new one for the root).
RECURSIVE AssignIds(_, _, _, _, _)
AssignIds(saved, taken, nid, freshRoot, acc) ==
  IF Len(acc) = Len(saved) THEN [ids |-> acc, nid |-> nid]
  ELSE LET k == Len(acc) + 1
           fresh == (k = 1 /\ freshRoot) \/ saved[k].id \in taken
           id == IF fresh THEN nid ELSE saved[k].id
       IN AssignIds(saved, taken \cup {id}, IF fresh THEN nid + 1 ELSE nid,
                    freshRoot, Append(acc, id))

\* The workspace after the host created the saved objects of data under
\* the ids a.ids: the root unconnected and moved off an object already at
\* its position, the others under it as saved.
placeObjects(d, data, a) ==
  LET n == Len(data.blocks)
      bump == IF \E i \in Live(d) :
                   d[i].parent = Null /\ d[i].pos = data.blocks[1].pos
                THEN 1 ELSE 0
      made(k, b) ==
        [live |-> TRUE, kind |-> data.kind, type |-> b.type,
         parent |-> IF k = 1 THEN Null ELSE a.ids[b.up],
         conn |-> IF k = 1 THEN "none" ELSE b.conn,
         deletable |-> b.deletable, movable |-> b.movable,
         shadow |-> b.shadow, output |-> b.output, field |-> b.field,
         hasField |-> b.hasField, collapsed |-> b.collapsed,
         enabled |-> b.enabled, pos |-> <<b.pos[1] + bump, b.pos[2] + bump>>,
         start |-> NoStart]
      at(i) == CHOOSE k \in 1..n : a.ids[k] = i
  IN [db |-> [i \in Ids |->
                IF \E k \in 1..n : a.ids[k] = i
                  THEN made(at(i), data.blocks[at(i)])
                  ELSE d[i]],
      nid |-> a.nid,
      element |-> a.ids[1]]

\* Blockly.clipboard.paste(data, workspace)
clipboardPaste(d, nid, data, freshRoot) ==
  placeObjects(d, data,
               AssignIds(data.blocks, Live(d), nid, freshRoot, <<>>))

\* The id generator's position after pasting data; past MaxObj + 1 the
\* paste does not fit the identifiers of the model and is not taken.
IdsAfter(d, nid, data, freshRoot) ==
  AssignIds(data.blocks, Live(d), nid, freshRoot, <<>>).nid

\* copyShortcut.check / cutShortcut.check
copyShortcutCheck(d, sel, element) ==
  IF element \notin Ids THEN FALSE
  ELSE IF d[element].kind = "block"
    THEN /\ isDeletable(d, element) /\ isMovable(d, element)
         /\ ~hasSelectedParent(d, sel, element, FALSE)
    ELSE isDeletable(d, element) /\ isMovable(d, element)

\* copyOptions.check of the context menu (blocks only).
copyOptionCheck(d, sel, block) ==
  /\ IsBlock(d, block)
  /\ isDeletable(d, block) /\ isMovable(d, block)
  /\ ~hasSelectedParent(d, sel, block, FALSE)

\* The connectionDBList a copy or cut builds from its list of ids: a pair
\* <<index of parent, index of block>> for every listed block that is the
\* next block of a listed block.
ConnPairs(d, list) ==
  LET hit(k) == /\ IsBlock(d, list[k])
                /\ getParent(d, list[k]) # Null
                /\ IndexOf(list, getParent(d, list[k])) # 0
                /\ getNextBlock(d, getParent(d, list[k])) = list[k]
      ks == SortedSeq({k \in 1..Len(list) : hit(k)})
  IN [j \in 1..Len(ks) |->
        <<IndexOf(list, getParent(d, list[ks[j]])), ks[j]>>]

\* The snapshots of the listed objects, in order.
Snapshots(d, list) == [k \in 1..Len(list) |-> toCopyData(d, list[k])]

pasteAddAll(r, p) ==
  [db |-> p.db, nid |-> p.nid,
   sel |-> r.sel \cup {p.element},
   sub |-> addSubDraggable_(r.sub, p.db, p.element),
   blockList |-> IF p.db[p.element].kind = "block"
                   THEN Append(r.blockList, p.element) ELSE r.blockList,
   created |-> r.created \cup {p.element},
   made |-> Append(r.made, p.element),
   last |-> p.element]

\* One turn of the copyData.forEach loop of the paste callbacks, p being
\* what Blockly.clipboard.paste returned: blocks are listed in blockList,
\* and every element but a drag_to_dupe block joins the Selection Set and
\* the composite.
pasteAdd(r, p) ==
  [db |-> p.db, nid |-> p.nid,
   sel |-> IF p.db[p.element].kind = "block"
              /\ p.db[p.element].type = "drag_to_dupe"
             THEN r.sel ELSE r.sel \cup {p.element},
   sub |-> IF p.db[p.element].kind = "block"
              /\ p.db[p.element].type = "drag_to_dupe"
             THEN r.sub ELSE addSubDraggable_(r.sub, p.db, p.element),
   blockList |-> IF p.db[p.element].kind = "block"
                   THEN Append(r.blockList, p.element) ELSE r.blockList,
   created |-> r.created \cup {p.element},
   made |-> Append(r.made, p.element),
   last |-> p.element]

\* The copyData.forEach loop of the paste callbacks;
\* r = [db, nid, sel, sub, blockList, created, made, last], made listing
\* for every snapshot the element pasted from it. A block snapshot the
\* workspace has no capacity for is passed over (Null in made).
RECURSIVE pasteLoop(_, _, _, _)
pasteLoop(r, data, freshRoot, limits) ==
  IF data = <<>> \/ r.nid > MaxObj + 1 THEN r
  ELSE IF /\ Head(data).kind = "block"
          /\ ~isCapacityAvailable(r.db, limits, Head(data))
    THEN pasteLoop([r EXCEPT !.made = Append(@, Null)], Tail(data),
                   freshRoot, limits)
  ELSE IF IdsAfter(r.db, r.nid, Head(data), freshRoot) > MaxObj + 1
    THEN [r EXCEPT !.nid = MaxObj + 2]
  ELSE pasteLoop(pasteAdd(r, clipboardPaste(r.db, r.nid, Head(data),
                                            freshRoot)),
                 Tail(data), freshRoot, limits)

\* The connectionDBList.forEach loop of the paste callbacks:
\* blockList[c[1]].nextConnection.connect(blockList[c[2]].previousConnection)
\* throws when an index is past the list or a block has no such
\* connection; r = [db, threw].
connectable(d, blockList, c) ==
  /\ c[1] \in 1..Len(blockList)
  /\ c[2] \in 1..Len(blockList)
  /\ ~d[blockList[c[1]]].output
  /\ ~d[blockList[c[2]]].output

RECURSIVE connectLoop(_, _, _)
connectLoop(r, blockList, conns) ==
  IF conns = <<>> \/ r.threw THEN r
  ELSE IF ~connectable(r.db, blockList, Head(conns))
    THEN [r EXCEPT !.threw = TRUE]
  ELSE connectLoop(
         [r EXCEPT !.db[blockList[Head(conns)[2]]].parent =
                      blockList[Head(conns)[1]],
                   !.db[blockList[Head(conns)[2]]].conn = "next"],
         blockList, Tail(conns))

(* ================= Spec: selection, mode and commands ================== *)
\* One more user gesture, while the run has gestures left.
Gesture ==
  /\ controls_
  /\ gestures < MaxGestures
  /\ gestures' = gestures + 1

dragVars == <<topSubDraggables, mdConnectionDBList, inGroup, dragging>>
modeVars == <<inMultipleSelectionMode, hasDisableWorkspaceDrag_, moveDrag,
              dragSelect_, dragSelects, origMoveDrag>>
tabVars == <<timestamp, localStorage, now, otherTab, lastCopy>>
clipVars == <<copyData, connectionDBList, tabVars>>
ctrlVars == <<justUnselectedBlock_, lastSelectedElement_, inPasteShortcut>>
fieldVars == <<multiFieldUpdate_, changeEvent>>
clickVars == <<doubleClickPid_, doubleClickBlock_, timers>>
surfaceVars == <<controls_, other, clickVars>>

Init ==
  /\ \E w \in SmallWorlds : Constructed(w)
  /\ hist = NoHist

\* The user clicks object x or the empty workspace (x = Null): the host
\* changes its native selection and queues a SELECTED notification.  A
\* click on a member outside multi-select mode is PointerDownMember.
HostSetSelected(x) ==
  /\ Gesture
  /\ x # selected
  /\ x = Null \/ inMultipleSelectionMode \/ x \notin DOMAIN subDraggables
  /\ selected' = x
  /\ highlighted' = setSelectedHighlight(highlighted, subDraggables,
                                        selected, x)
  /\ pendingSelected' = Queue(pendingSelected, selected, x)
  /\ hist' = NoHist
  /\ UNCHANGED <<db, nextId, mainWorkspace, maxInstances, prototype,
                 group, nextGroup, dragSelection,
                 subDraggables, dragVars, modeVars, clipVars, ctrlVars,
                 fieldVars, surfaceVars>>

\* MultiselectDraggable.pointerDownEventHandler_ on member m: outside
\* multi-select mode the composite takes the focus in place of m.
PointerDownMember(m) ==
  /\ Gesture
  /\ m \in DOMAIN subDraggables
  /\ ~inMultipleSelectionMode
  /\ selected # MultiDraggable
  /\ selected' = MultiDraggable
  /\ highlighted' = setSelectedHighlight(highlighted, subDraggables, selected,
                                       MultiDraggable)
  /\ pendingSelected' = Queue(pendingSelected, selected, MultiDraggable)
  /\ hist' = NoHist
  /\ UNCHANGED <<db, nextId, mainWorkspace, maxInstances, prototype,
                 group, nextGroup, dragSelection,
                 subDraggables, dragVars, modeVars, clipVars, ctrlVars,
                 fieldVars, surfaceVars>>

\* Another workspace becomes / stops being Blockly.getMainWorkspace(); the
\* click that causes it is announced to every workspace's listener.
SwitchMainWorkspace ==
  /\ Gesture
  /\ mainWorkspace' = ~mainWorkspace
  /\ UNCHANGED <<maxInstances, prototype, highlighted>>
  /\ pendingSelected' = IF pendingSelected < MaxPending
                          THEN pendingSelected + 1 ELSE pendingSelected
  /\ hist' = NoHist
  /\ UNCHANGED <<db, nextId, selected, group, nextGroup, dragSelection,
                 subDraggables, dragVars, modeVars, clipVars, ctrlVars,
                 fieldVars, surfaceVars>>

clearsSelectionOtherWorkspaceOnly(main, sel) == ~main

\* updateMultiselect outside multi-select mode: the Selection Set and the
\* composite are emptied when another workspace is the main one, when
\* nothing is selected and when the native selection is a single object.
clearsSelection(main, sel) == ~main \/ ~IsMultiselectDraggable(sel)

\* MultiselectControls.updateMultiselect() of the controls whose state is
\* s = [mode, sel, sub, just, last, inPaste] and whose composite is own,
\* with Blockly.getSelected() = native, d holding the natively selectable
\* objects, and main telling whether the controls' workspace is the main
\* one.  The result is the new state and the new native selection.
updateMultiselect(s, d, native, main, own) ==
  IF ~s.mode
    THEN LET cleared == clearsSelection(main, native)
         IN [mode |-> s.mode,
             sel |-> IF cleared THEN {} ELSE s.sel,
             sub |-> IF cleared THEN clearAll_(s.sub) ELSE s.sub,
             just |-> s.just,
             last |-> IF native = Null THEN Null
                      ELSE IF ~IsMultiselectDraggable(native) THEN native
                      ELSE s.last,
             inPaste |-> IF native \in Ids THEN FALSE ELSE s.inPaste,
             native |-> native]
  ELSE IF s.sel # {} /\ ~IsMultiselectDraggable(native)
    THEN [mode |-> s.mode, sel |-> s.sel, sub |-> s.sub, just |-> s.just,
          last |-> s.last, inPaste |-> s.inPaste, native |-> own]
  ELSE IF s.last # Null /\ ~s.inPaste
    THEN LET st == updateDraggables_([sel |-> s.sel, sub |-> s.sub,
                                      just |-> s.just], d, s.last)
         IN [mode |-> s.mode, sel |-> st.sel, sub |-> st.sub,
             just |-> st.just, last |-> Null, inPaste |-> FALSE,
             native |-> native]
  ELSE IF s.sel = {} /\ ~IsMultiselectDraggable(native)
    THEN LET unselect == IsBlock(d, native) /\ ~isShadow(d, native)
             after == IF unselect THEN Null ELSE native
         IN [mode |-> s.mode, sel |-> s.sel, sub |-> s.sub,
             just |-> IF after \in Ids /\ d[after].kind = "block"
                        THEN after ELSE s.just,
             last |-> s.last, inPaste |-> s.inPaste, native |-> after]
  ELSE [mode |-> s.mode, sel |-> s.sel, sub |-> s.sub, just |-> s.just,
        last |-> s.last, inPaste |-> s.inPaste, native |-> native]

\* The state updateMultiselect reads and writes, for this workspace.
ControlsState ==
  [mode |-> inMultipleSelectionMode, sel |-> dragSelection,
   sub |-> subDraggables, just |-> justUnselectedBlock_,
   last |-> lastSelectedElement_, inPaste |-> inPasteShortcut]

\* The forEach of eventListenerAll_: updateMultiselect() of every controls in
\* multiselectControlsList, this workspace's first; st = [a, b, native,
\* pending], and each setSelected that changes the native selection queues a
\* notification.
forEachControls(st, d, main) ==
  LET a == updateMultiselect(st.a, d, st.native, main, MultiDraggable)
      b == IF st.b.present
             THEN updateMultiselect(st.b, d, a.native, ~main, OtherDraggable)
             ELSE [mode |-> st.b.mode, sel |-> st.b.sel, sub |-> st.b.sub,
                   just |-> st.b.just, last |-> st.b.last,
                   inPaste |-> st.b.inPaste, native |-> a.native]
  IN [a |-> a,
      b |-> [present |-> st.b.present, mode |-> b.mode, sel |-> b.sel,
             sub |-> b.sub, just |-> b.just, last |-> b.last,
             inPaste |-> b.inPaste],
      native |-> b.native,
      pending |-> Queue(Queue(st.pending, st.native, a.native),
                        a.native, b.native)]

\* How many eventListenerAll_ listeners hear a SELECTED event of this
\* workspace: every plugin instance binds its own to the workspaces that
\* exist when its init runs.
ListenersAll == IF other.present THEN {1, 2} ELSE {1}

\* eventListenerAll_ on a SELECTED notification, once per listener.
SelectedEvent ==
  /\ controls_
  /\ pendingSelected > 0
  /\ UNCHANGED gestures
  /\ hist' = Observed(IF inMultipleSelectionMode THEN "selectedMulti"
                      ELSE "selectedNormal", justUnselectedBlock_, {}, {}, {},
                      {}, FALSE)
  /\ \E listeners \in ListenersAll :
       LET st1 == forEachControls([a |-> ControlsState, b |-> other,
                                   native |-> selected,
                                   pending |-> pendingSelected - 1],
                                  db, mainWorkspace)
           st == IF listeners = 2
                   THEN forEachControls(st1, db, mainWorkspace) ELSE st1
       IN /\ dragSelection' = st.a.sel
          /\ subDraggables' = st.a.sub
          /\ justUnselectedBlock_' = st.a.just
          /\ lastSelectedElement_' = st.a.last
          /\ inPasteShortcut' = st.a.inPaste
          /\ selected' = st.native
          /\ highlighted' =
               setSelectedHighlight(
                 updateDraggablesHighlight(highlighted, subDraggables,
                                           st.a.sub),
                 st.a.sub, selected, st.native)
          /\ other' = st.b
          /\ pendingSelected' = st.pending
  /\ UNCHANGED <<db, nextId, mainWorkspace, maxInstances, prototype,
                 group, nextGroup, dragVars,
                 modeVars, clipVars, fieldVars, controls_, clickVars>>

\* enableMultiselect: workspace dragging is switched off, and remembered as
\* switched off by the plugin, only when it is on and not yet remembered.
disableWorkspaceDrag(has, drag) ==
  IF ~has /\ drag THEN [drag |-> FALSE, has |-> TRUE]
  ELSE [drag |-> drag, has |-> has]

restoreWorkspaceDragAlways(has, drag) == [drag |-> TRUE, has |-> FALSE]

\* disableMultiselect: workspace dragging is switched on again only when
\* the plugin had switched it off.
restoreWorkspaceDrag(has, drag) ==
  IF has THEN [drag |-> TRUE, has |-> FALSE]
  ELSE [drag |-> drag, has |-> has]

stopNever(attached, n) == n

\* disableMultiselect: if (this.dragSelect_) this.dragSelect_.stop() ends the
\* instance the controls hold; n counts the instances that listen.
stop(attached, n) ==
  IF attached THEN n - 1 ELSE n

\* MultiselectControls.enableMultiselect, from onKeyDown_ (the multi-select
\* key goes down outside the mode) or switchMultiselect_ (icon).
EnableMultiselect ==
  /\ Gesture
  /\ ~inMultipleSelectionMode
  /\ moveDrag' = disableWorkspaceDrag(hasDisableWorkspaceDrag_, moveDrag).drag
  /\ hasDisableWorkspaceDrag_' =
       disableWorkspaceDrag(hasDisableWorkspaceDrag_, moveDrag).has
  /\ dragSelect_' = TRUE
  /\ dragSelects' = dragSelects + 1
  /\ inMultipleSelectionMode' = TRUE
  /\ hist' = NoHist
  /\ UNCHANGED <<db, nextId, selected, mainWorkspace, maxInstances, prototype,
                 highlighted,
                 group, nextGroup,
                 pendingSelected, dragSelection, subDraggables, dragVars,
                 clipVars, ctrlVars, fieldVars, origMoveDrag, surfaceVars>>

selectedAfterDisableUnchanged(sel, native) == native

\* disableMultiselect: the composite becomes the native selection when the
\* Selection Set sel has members and nothing is selected.
selectedAfterDisable(sel, native) ==
  IF sel # {} /\ native = Null THEN MultiDraggable ELSE native

\* MultiselectControls.disableMultiselect, from onKeyUp_, onBlur_ (with
\* revert = the focus went to a field editor) or switchMultiselect_.
DisableMultiselect(revert) ==
  /\ Gesture
  /\ inMultipleSelectionMode \/ ~revert
  /\ LET st == IF revert
                 THEN updateDraggables_(SelState, db, justUnselectedBlock_)
                 ELSE SelState
         sel == selectedAfterDisable(st.sel, selected)
     IN /\ dragSelection' = st.sel
        /\ subDraggables' = st.sub
        /\ justUnselectedBlock_' = st.just
        /\ selected' = sel
        /\ highlighted' =
             setSelectedHighlight(
               updateDraggablesHighlight(highlighted, subDraggables, st.sub),
               st.sub, selected, sel)
        /\ pendingSelected' = Queue(pendingSelected, selected, sel)
  /\ inMultipleSelectionMode' = FALSE
  /\ dragSelect_' = FALSE
  /\ dragSelects' = stop(dragSelect_, dragSelects)
  /\ moveDrag' = restoreWorkspaceDrag(hasDisableWorkspaceDrag_, moveDrag).drag
  /\ hasDisableWorkspaceDrag_' =
       restoreWorkspaceDrag(hasDisableWorkspaceDrag_, moveDrag).has
  /\ hist' = Observed(IF ~inMultipleSelectionMode THEN "keyUp"
                      ELSE IF revert THEN "blurRevert" ELSE "leave",
                      justUnselectedBlock_, {}, {}, {}, {}, FALSE)
  /\ UNCHANGED <<db, nextId, mainWorkspace, maxInstances, prototype,
                 group, nextGroup, dragVars,
                 clipVars, lastSelectedElement_, inPasteShortcut, fieldVars,
                 origMoveDrag, surfaceVars>>

\* Multiselect.dispose(): the listeners are unbound, the registries put
\* back, the controls leave multiselectControlsList and are disposed, which
\* runs disableMultiselect().
PluginDispose ==
  /\ Gesture
  /\ controls_' = FALSE
  /\ prototype' = disposePatches(prototype, 1)
  /\ selected' = selectedAfterDisable(dragSelection, selected)
  /\ highlighted' =
       setSelectedHighlight(highlighted, subDraggables, selected,
                            selectedAfterDisable(dragSelection, selected))
  /\ pendingSelected' =
       Queue(pendingSelected, selected,
             selectedAfterDisable(dragSelection, selected))
  /\ inMultipleSelectionMode' = FALSE
  /\ dragSelect_' = FALSE
  /\ dragSelects' = stop(dragSelect_, dragSelects)
  /\ moveDrag' = restoreWorkspaceDrag(hasDisableWorkspaceDrag_, moveDrag).drag
  /\ hasDisableWorkspaceDrag_' =
       restoreWorkspaceDrag(hasDisableWorkspaceDrag_, moveDrag).has
  /\ hist' = Observed("pluginDispose", Null, {}, {}, {}, {}, FALSE)
  /\ UNCHANGED <<db, nextId, mainWorkspace, maxInstances,
                 group, nextGroup, dragSelection,
                 subDraggables, dragVars, clipVars, ctrlVars, fieldVars,
                 origMoveDrag, other, clickVars>>

\* DragSelect 'elementselect' / 'elementunselect' for the element of x: a
\* listening instance emits it, and the subscriber acts in multi-select
\* mode only.
DragSelectSignal(x) ==
  /\ gestures < MaxGestures
  /\ gestures' = gestures + 1
  /\ dragSelects > 0
  /\ LET st == IF inMultipleSelectionMode
                 THEN updateDraggables_(SelState, db, getByID(db, x))
                 ELSE SelState
     IN /\ dragSelection' = st.sel
        /\ subDraggables' = st.sub
        /\ justUnselectedBlock_' = st.just
        /\ highlighted' =
             updateDraggablesHighlight(highlighted, subDraggables, st.sub)
  /\ hist' = NoHist
  /\ UNCHANGED <<db, nextId, selected, mainWorkspace, maxInstances, prototype,
                 group, nextGroup,
                 pendingSelected, dragVars, modeVars, clipVars,
                 lastSelectedElement_, inPasteShortcut, fieldVars, surfaceVars>>

(* --------------------------- bulk commands ----------------------------- *)
\* The objects a shortcut callback visits: the composite's members when the
\* composite is the native selection, the native selection itself when the
\* Selection Set is empty, nothing otherwise.
Visited(order) ==
  IF selected = MultiDraggable THEN order
  ELSE IF dragSelection = {} /\ selected \in Ids THEN <<selected>>
  ELSE <<>>

\* A context-menu command on a block is chosen from the menu a right-click
\* on scope opened; the click made scope the native selection, or the
\* composite when scope is a member.
MenuOn(scope) ==
  /\ IsBlock(db, scope)
  /\ \/ selected = scope
     \/ selected = MultiDraggable /\ scope \in DOMAIN subDraggables

\* Blockly.Events.setGroup(true): a fresh group id becomes current.
OpenGroup == nextGroup' = nextGroup + 1

QueueIf(changed) ==
  IF changed /\ pendingSelected < MaxPending THEN pendingSelected + 1
  ELSE pendingSelected

\* deleteShortcut (Delete / Backspace): preconditionFn and callback.
ShortcutDelete ==
  /\ Gesture
  /\ OpenGroup
  /\ IF dragSelection = {}
       THEN deleteShortcutCheck(db, dragSelection, selected)
       ELSE \E id \in dragSelection :
              deleteShortcutCheck(db, dragSelection, getByID(db, id))
  /\ \E order \in Orders :
       LET r == deleteShortcutLoop([db |-> db, acted |-> {}], dragSelection,
                                   Visited(order))
           want == IF dragSelection = {}
                     THEN {x \in {selected} :
                             deleteShortcutCheck(db, dragSelection, x)}
                     ELSE {m \in dragSelection :
                             deleteShortcutCheck(db, dragSelection,
                                                 getByID(db, m))}
       IN /\ db' = r.db
          /\ highlighted' = highlighted \cap Live(r.db)
          /\ selected' = AfterDispose(r.db, selected)
          /\ pendingSelected' = QueueIf(AfterDispose(r.db, selected) # selected)
          /\ hist' = Observed("delete", selected, want,
                              Nested(db, dragSelection), r.acted, {}, FALSE)
  /\ subDraggables' = IF selected = MultiDraggable
                        THEN clearAll_(subDraggables) ELSE subDraggables
  /\ other' = IF selected = OtherDraggable
                THEN [other EXCEPT !.sub = clearAll_(other.sub)] ELSE other
  /\ dragSelection' = IF IsMultiselectDraggable(selected) THEN {}
                      ELSE dragSelection
  /\ group' = 0
  /\ UNCHANGED <<nextId, mainWorkspace, maxInstances, prototype, dragVars,
                 modeVars,
                 clipVars, ctrlVars, fieldVars, controls_, clickVars>>

\* What one top-level member adds to descendantCount in
\* deleteOption.displayText: its descendants (itself included) that are no
\* shadows, less the whole stack under its next connection.
descendantCountOf(d, block) ==
  LET all == {block} \cup Below(d, block)
      next == getNextBlock(d, block)
  IN Cardinality(all) - Cardinality({b \in all : isShadow(d, b)})
       - (IF next # Null THEN Cardinality({next} \cup Below(d, next)) ELSE 0)

\* descendantCount of deleteOption.displayText over the members S.
RECURSIVE descendantCount(_, _, _)
descendantCount(d, sel, S) ==
  IF S = {} THEN 0
  ELSE LET id == CHOOSE x \in S : TRUE
       IN (IF IsBlock(d, id) /\ ~hasSelectedParent(d, sel, id, FALSE)
             THEN descendantCountOf(d, id) ELSE 0)
          + descendantCount(d, sel, S \ {id})

\* deleteOption of the context menu on block scope.
MenuDelete(scope) ==
  /\ Gesture
  /\ OpenGroup
  /\ MenuOn(scope)
  /\ isDeletable(db, scope)
  /\ \E order \in Orders :
       LET throws == /\ selected # MultiDraggable /\ dragSelection = {}
                     /\ IsComment(db, selected) /\ isDeletable(db, selected)
           r == IF selected = MultiDraggable
                  THEN deleteOptionLoop([db |-> db, acted |-> {}],
                                        dragSelection, order)
                ELSE IF dragSelection = {} /\ IsBlock(db, selected)
                  THEN deleteOptionLoop([db |-> db, acted |-> {}],
                                        dragSelection, <<selected>>)
                ELSE [db |-> db, acted |-> {}]
           want == IF dragSelection = {}
                     THEN {x \in {scope} :
                             deleteOptionCheck(db, dragSelection, x)}
                     ELSE {m \in dragSelection :
                             /\ IsBlock(db, m)
                             /\ deleteOptionCheck(db, dragSelection, m)}
       IN /\ db' = r.db
          /\ highlighted' =
               (IF selected = MultiDraggable
                  THEN highlighted \ DOMAIN subDraggables
                  ELSE highlighted) \cap Live(r.db)
          /\ selected' = AfterDispose(r.db, selected)
          /\ pendingSelected' = QueueIf(AfterDispose(r.db, selected) # selected)
          /\ group' = IF throws THEN nextGroup ELSE 0
          /\ hist' = Observed("menuDelete", scope, want,
                              Nested(db, dragSelection), r.acted, {}, throws)
  /\ subDraggables' = IF selected = MultiDraggable
                        THEN clearAll_(subDraggables) ELSE subDraggables
  /\ dragSelection' = IF selected = MultiDraggable THEN {} ELSE dragSelection
  /\ UNCHANGED <<nextId, mainWorkspace, maxInstances, prototype, dragVars,
                 modeVars,
                 clipVars, ctrlVars, fieldVars, surfaceVars>>

\* MultiselectDraggable.dispose(): the host deletes its native selection,
\* the composite.
CompositeDispose ==
  /\ Gesture
  /\ selected = MultiDraggable
  /\ DOMAIN subDraggables # {}
  /\ \E order \in Orders :
       LET r == disposeLoop([db |-> db, sel |-> dragSelection,
                             sub |-> subDraggables, acted |-> {}], order)
       IN /\ db' = r.db
          /\ highlighted' = highlighted \cap Live(r.db)
          /\ dragSelection' = r.sel
          /\ subDraggables' = r.sub
          /\ hist' = Observed("dispose", MultiDraggable,
                              {m \in DOMAIN subDraggables : isDeletable(db, m)},
                              Nested(db, dragSelection), r.acted, {}, FALSE)
  /\ UNCHANGED <<nextId, selected, mainWorkspace, maxInstances, prototype,
                 group, nextGroup,
                 pendingSelected, dragVars, modeVars, clipVars, ctrlVars,
                 fieldVars, surfaceVars>>

\* collapseExpandOption.check(block)
collapseExpandCheck(d, sel, block) ==
  /\ IsBlock(d, block)
  /\ isMovable(d, block)
  /\ ~hasSelectedParent(d, sel, block, FALSE) \/ d[block].collapsed

\* collapseExpandOption of the context menu on block scope.
MenuCollapse(scope) ==
  /\ Gesture
  /\ OpenGroup
  /\ MenuOn(scope)
  /\ isMovable(db, scope)
  /\ LET state == ~db[scope].collapsed
         visit == IF dragSelection = {} THEN {scope}
                  ELSE {m \in dragSelection : IsBlock(db, m)}
         acted == {b \in visit : collapseExpandCheck(db, dragSelection, b)}
     IN /\ db' = [i \in Ids |->
                    IF i \in acted THEN [db[i] EXCEPT !.collapsed = state]
                    ELSE db[i]]
        /\ hist' = Observed("collapse", scope,
                            IF dragSelection = {}
                              THEN {x \in {scope} :
                                      collapseExpandCheck(db, dragSelection, x)}
                              ELSE {m \in dragSelection :
                                      collapseExpandCheck(db, dragSelection,
                                                          m)},
                            Nested(db, dragSelection), acted, {}, FALSE)
  /\ group' = 0
  /\ UNCHANGED <<nextId, selected, mainWorkspace, maxInstances, prototype,
                 highlighted, pendingSelected,
                 dragSelection, subDraggables, dragVars, modeVars, clipVars,
                 ctrlVars, fieldVars, surfaceVars>>

\* block.getInheritedDisabled(): a block that surrounds this one is
\* disabled.
RECURSIVE getInheritedDisabled(_, _)
getInheritedDisabled(d, b) ==
  LET p == getSurroundParent(d, b)
  IN IF p = Null THEN FALSE
     ELSE IF ~d[p].enabled THEN TRUE
     ELSE getInheritedDisabled(d, p)

\* disableOption.preconditionFn on an editable block of a workspace with
\* options.disable on.
disablePreconditionFn(d, block) ==
  IF getInheritedDisabled(d, block) THEN "disabled" ELSE "enabled"

\* disableOption.check(block)
disableCheck(d, sel, block) ==
  /\ IsBlock(d, block)
  /\ disablePreconditionFn(d, block) = "enabled"
  /\ ~hasSelectedParent(d, sel, block, FALSE) \/ ~d[block].enabled

\* The members disableOption.displayText counts in workableBlocksLength.
disableWorkable(d, sel, scope) ==
  {m \in sel : disableCheck(d, sel, m) /\ d[m].enabled = d[scope].enabled}

\* The count a displayText appends to its label, 0 when it appends none.
shownCount(workableBlocksLength) ==
  IF workableBlocksLength <= 1 THEN 0 ELSE workableBlocksLength

\* The apply(block) calls of disableOption.callback in the order given;
\* r = [db, acted], acted holding the blocks whose enabled state changed.
RECURSIVE disableLoop(_, _, _, _)
disableLoop(r, sel, state, order) ==
  IF order = <<>> THEN r
  ELSE LET e == Head(order)
           ok == disableCheck(r.db, sel, e)
       IN disableLoop(
            [db |-> IF ok THEN [r.db EXCEPT ![e].enabled = state] ELSE r.db,
             acted |-> IF ok /\ r.db[e].enabled # state
                         THEN r.acted \cup {e} ELSE r.acted],
            sel, state, Tail(order))

\* disableOption of the context menu on block scope: the label is shown,
\* then the callback runs over the Selection Set in its insertion order.
MenuDisable(scope) ==
  /\ Gesture
  /\ OpenGroup
  /\ MenuOn(scope)
  /\ disablePreconditionFn(db, scope) = "enabled"
  /\ \E order \in IF dragSelection = {} THEN {<<scope>>}
                  ELSE Perms({m \in dragSelection : IsBlock(db, m)}) :
       LET r == disableLoop([db |-> db, acted |-> {}], dragSelection,
                            ~db[scope].enabled, order)
       IN /\ db' = r.db
          /\ hist' = Observed("disable", scope,
                              disableWorkable(db, dragSelection, scope),
                              Nested(db, dragSelection), r.acted, {}, FALSE)
  /\ group' = 0
  /\ UNCHANGED <<nextId, selected, mainWorkspace, maxInstances, prototype,
                 highlighted, pendingSelected,
                 dragSelection, subDraggables, dragVars, modeVars, clipVars,
                 ctrlVars, fieldVars, surfaceVars>>

\* copyShortcut (Ctrl/Alt/Meta + C): preconditionFn and callback.
ShortcutCopy ==
  /\ Gesture
  /\ OpenGroup
  /\ IF dragSelection = {}
       THEN copyShortcutCheck(db, dragSelection, selected)
       ELSE \E id \in dragSelection :
              copyShortcutCheck(db, dragSelection, getByID(db, id))
  /\ \E order \in Orders :
       LET list == SelectSeq(Visited(order),
                     LAMBDA e : copyShortcutCheck(db, dragSelection, e))
           blockList == SelectSeq(list, LAMBDA e : IsBlock(db, e))
       IN /\ copyData' = Snapshots(db, list)
          /\ connectionDBList' = ConnPairs(db, blockList)
          /\ CopyToStorage(Snapshots(db, list), ConnPairs(db, blockList))
          /\ hist' = Observed("copy", selected,
                        IF dragSelection = {}
                          THEN {x \in {selected} :
                                  copyShortcutCheck(db, dragSelection, x)}
                          ELSE {m \in dragSelection :
                                  copyShortcutCheck(db, dragSelection,
                                                    getByID(db, m))},
                        Nested(db, dragSelection),
                        {list[k] : k \in 1..Len(list)}, {}, FALSE)
  /\ group' = 0
  /\ UNCHANGED <<db, nextId, selected, mainWorkspace, maxInstances, prototype,
                 highlighted,
                 pendingSelected, dragSelection, subDraggables, dragVars,
                 modeVars, ctrlVars, fieldVars, surfaceVars>>

\* copyOptions of the context menu on block scope.
MenuCopy(scope) ==
  /\ Gesture
  /\ OpenGroup
  /\ MenuOn(scope)
  /\ IF dragSelection = {}
       THEN copyOptionCheck(db, dragSelection, selected)
       ELSE \E id \in dragSelection :
              copyOptionCheck(db, dragSelection, id)
  /\ \E order \in Orders :
       LET list == SelectSeq(Visited(order),
                     LAMBDA e : copyOptionCheck(db, dragSelection, e))
       IN /\ copyData' = Snapshots(db, list)
          /\ connectionDBList' = ConnPairs(db, list)
          /\ CopyToStorage(Snapshots(db, list), ConnPairs(db, list))
          /\ hist' = Observed("menuCopy", scope,
                        IF dragSelection = {}
                          THEN {x \in {scope} :
                                  copyOptionCheck(db, dragSelection, x)}
                          ELSE {m \in dragSelection :
                                  copyOptionCheck(db, dragSelection, m)},
                        Nested(db, dragSelection),
                        {list[k] : k \in 1..Len(list)}, {}, FALSE)
  /\ group' = 0
  /\ UNCHANGED <<db, nextId, selected, mainWorkspace, maxInstances, prototype,
                 highlighted,
                 pendingSelected, dragSelection, subDraggables, dragVars,
                 modeVars, ctrlVars, fieldVars, surfaceVars>>

\* The elementList.forEach(applyDelete) loop of cutShortcut.callback;
\* r = [db, acted].
RECURSIVE cutDeleteLoop(_, _)
cutDeleteLoop(r, list) ==
  IF list = <<>> THEN r
  ELSE LET e == getByID(r.db, Head(list))
       IN cutDeleteLoop(
            [db |-> IF e = Null THEN r.db ELSE deleteApply(r.db, e),
             acted |-> IF e = Null THEN r.acted ELSE r.acted \cup {e}],
            Tail(list))

\* cutShortcut (Ctrl/Alt/Meta + X): preconditionFn and callback.
ShortcutCut ==
  /\ Gesture
  /\ OpenGroup
  /\ IF dragSelection = {}
       THEN copyShortcutCheck(db, dragSelection, selected)
       ELSE \E id \in dragSelection :
              copyShortcutCheck(db, dragSelection, getByID(db, id))
  /\ \E order \in Orders :
       LET elementList == SelectSeq(Visited(order),
                            LAMBDA e : copyShortcutCheck(db, dragSelection, e))
           r == cutDeleteLoop([db |-> db, acted |-> {}], elementList)
       IN /\ copyData' = Snapshots(db, elementList)
          /\ connectionDBList' = ConnPairs(db, elementList)
          /\ CopyToStorage(Snapshots(db, elementList),
                           ConnPairs(db, elementList))
          /\ db' = r.db
          /\ highlighted' = highlighted \cap Live(r.db)
          /\ selected' = AfterDispose(r.db, selected)
          /\ pendingSelected' = QueueIf(AfterDispose(r.db, selected) # selected)
          /\ hist' = Observed("cut", selected,
                        IF dragSelection = {}
                          THEN {x \in {selected} :
                                  copyShortcutCheck(db, dragSelection, x)}
                          ELSE {m \in dragSelection :
                                  copyShortcutCheck(db, dragSelection,
                                                    getByID(db, m))},
                        Nested(db, dragSelection), r.acted, {}, FALSE)
  /\ subDraggables' = IF selected = MultiDraggable
                        THEN clearAll_(subDraggables) ELSE subDraggables
  /\ dragSelection' = {}
  /\ group' = 0
  /\ UNCHANGED <<nextId, mainWorkspace, maxInstances, prototype, dragVars,
                 modeVars,
                 ctrlVars, fieldVars, surfaceVars>>

\* What a paste callback leaves, r being the result of its paste loop and
\* c of its reconnection loop: when reconnecting threw, the callback ended
\* there, with the last pasted element as the native selection.
pasteResult(r, c) ==
  [db |-> c.db, nid |-> r.nid, sel |-> r.sel, sub |-> r.sub,
   created |-> r.created, made |-> r.made, threw |-> c.threw,
   selected |-> IF c.threw THEN r.last ELSE MultiDraggable]

pasteConnect(r, conns) ==
  pasteResult(r, connectLoop([db |-> r.db, threw |-> FALSE], r.blockList,
                             conns))

\* The state both paste callbacks leave: the selection is cleared when it
\* is not empty, the payload is taken from the storage when that is newer,
\* every snapshot is pasted, the saved sibling pairs are
\* reconnected and the composite becomes the native selection.
Pasted ==
  pasteConnect(
    pasteLoop([db |-> db, nid |-> nextId, sel |-> {},
               sub |-> IF dragSelection # {} THEN clearAll_(subDraggables)
                       ELSE subDraggables,
               blockList |-> <<>>, created |-> {}, made |-> <<>>,
               last |-> selected],
              Loaded.copyData, ~mainWorkspace, maxInstances),
    Loaded.conn)

\* The assignments of a paste callback whose outcome is p.
\* The highlight after a paste callback whose result is p: the members of
\* the Selection Set are unselected before the paste (when there are any),
\* every element pasted becomes the native selection in turn, a pasted
\* comment is selected, and the closing setSelected(multiDraggable), which
\* a raising callback does not reach, highlights every member.
pasteHighlight(h, p) ==
  LET base == IF dragSelection # {}
                THEN h \ (dragSelection \cup DOMAIN subDraggables) ELSE h
      comments == {c \in p.created : p.db[c].kind = "comment"}
  IN IF p.created = {} \/ p.threw
       THEN setSelectedHighlight(base, p.sub, selected, p.selected)
              \cup comments
       ELSE (base \ {selected}) \cup DOMAIN p.sub

pasteApply(op, p) ==
  /\ p.nid <= MaxObj + 1
  /\ db' = p.db
  /\ nextId' = p.nid
  /\ dragSelection' = p.sel
  /\ subDraggables' = p.sub
  /\ selected' = p.selected
  /\ highlighted' = pasteHighlight(highlighted, p) \cap Live(p.db)
  /\ pendingSelected' = QueueIf(p.created # {} \/ p.selected # selected)
  /\ group' = IF p.threw THEN nextGroup ELSE 0
  /\ hist' = Observed(op, Null, {<<k, p.made[k]>> : k \in 1..Len(p.made)},
                      {}, {}, p.created, p.threw)

\* dataCopyFromStorage() in a paste callback of this tab.
LoadFromStorage ==
  /\ copyData' = Loaded.copyData
  /\ connectionDBList' = Loaded.conn
  /\ timestamp' = Loaded.timestamp
  /\ UNCHANGED <<localStorage, now, otherTab, lastCopy>>

\* pasteShortcut (Ctrl/Alt/Meta + V).
ShortcutPaste ==
  /\ Gesture
  /\ OpenGroup
  /\ pasteApply("paste", Pasted)
  /\ LoadFromStorage
  /\ inPasteShortcut' = TRUE
  /\ UNCHANGED <<mainWorkspace, maxInstances, prototype,
                 dragVars, modeVars, justUnselectedBlock_,
                 lastSelectedElement_, fieldVars, surfaceVars>>

\* pasteOption of the workspace context menu; element.unselect() on a
\* Selection Set id that names no object throws before anything is pasted.
MenuPaste ==
  /\ Gesture
  /\ OpenGroup
  /\ blockNumGetFromStorage(localStorage, copyData, timestamp) >= 1
  /\ IF \E id \in dragSelection : getByID(db, id) = Null
       THEN /\ group' = nextGroup
            /\ hist' = Observed("menuPaste", Null, {}, {}, {}, {}, TRUE)
            /\ \E reached \in SUBSET (dragSelection \cap Live(db)) :
                 highlighted' = highlighted \ reached
            /\ UNCHANGED <<db, nextId, dragSelection, subDraggables,
                           selected, pendingSelected, clipVars>>
       ELSE /\ pasteApply("menuPaste", Pasted)
            /\ LoadFromStorage
  /\ UNCHANGED <<mainWorkspace, maxInstances, prototype,
                 dragVars, modeVars, ctrlVars, fieldVars,
                 surfaceVars>>

\* duplicateOption.check(block)
duplicateCheck(d, sel, block) ==
  /\ IsBlock(d, block)
  /\ isDeletable(d, block) /\ isMovable(d, block)
  /\ ~hasSelectedParent(d, sel, block, FALSE)

\* The apply(block) calls of duplicateOption.callback over the listed
\* blocks; r = [db, nid, origs, dups, last] with dups[k] the duplicate of
\* origs[k].
RECURSIVE duplicateLoop(_, _, _)
duplicateLoop(r, sel, list) ==
  IF list = <<>> \/ r.nid > MaxObj + 1 THEN r
  ELSE LET b == Head(list)
       IN IF ~duplicateCheck(r.db, sel, b)
            THEN duplicateLoop(r, sel, Tail(list))
          ELSE IF IdsAfter(r.db, r.nid, toCopyData(r.db, b), TRUE)
                    > MaxObj + 1
            THEN [r EXCEPT !.nid = MaxObj + 2]
            ELSE LET p == clipboardPaste(r.db, r.nid, toCopyData(r.db, b), TRUE)
                 IN duplicateLoop(
                      [db |-> p.db, nid |-> p.nid,
                       origs |-> Append(r.origs, b),
                       dups |-> Append(r.dups, p.element),
                       last |-> p.element],
                      sel, Tail(list))

\* The reconnection of duplicateOption.callback: the duplicate of a block
\* whose original hangs on the next connection of another duplicated block
\* is connected under that block's duplicate.
duplicateConnect(d, origs, dups) ==
  [i \in Ids |->
     LET k == IndexOf(dups, i)
         op == IF k = 0 THEN Null ELSE getParent(d, origs[k])
     IN IF k # 0 /\ op # Null /\ IndexOf(origs, op) # 0
           /\ getNextBlock(d, op) = origs[k]
          THEN [d[i] EXCEPT !.parent = dups[IndexOf(origs, op)],
                            !.conn = "next"]
          ELSE d[i]]

\* duplicateOption of the context menu on block scope.
MenuDuplicate(scope) ==
  /\ Gesture
  /\ OpenGroup
  /\ MenuOn(scope)
  /\ isDeletable(db, scope) /\ isMovable(db, scope)
  /\ \E order \in Perms(dragSelection) :
       LET list == IF dragSelection = {} THEN <<scope>> ELSE order
           r == duplicateLoop([db |-> db, nid |-> nextId, origs |-> <<>>,
                               dups |-> <<>>, last |-> Null],
                              dragSelection, list)
           new == {r.dups[k] : k \in 1..Len(r.dups)}
           added == {i \in new : r.db[i].type # "drag_to_dupe"}
           sub0 == IF dragSelection = {} THEN subDraggables
                   ELSE clearAll_(subDraggables)
           d2 == duplicateConnect(r.db, r.origs, r.dups)
       IN /\ r.nid <= MaxObj + 1
          /\ db' = d2
          /\ nextId' = r.nid
          /\ dragSelection' = added
          /\ highlighted' =
               IF new = {} /\ dragSelection = {}
                 THEN setSelectedHighlight(highlighted, subDraggables,
                                           selected, MultiDraggable)
                 ELSE ((IF dragSelection = {} THEN highlighted
                        ELSE highlighted
                               \ (dragSelection \cup DOMAIN subDraggables))
                         \ {selected})
                        \cup DOMAIN sub0 \cup added
          /\ subDraggables' =
               [i \in (DOMAIN sub0) \cup added |->
                  IF i \in added THEN getRelativeToSurfaceXY(r.db, i)
                  ELSE sub0[i]]
          /\ hist' = Observed("duplicate", scope,
                        IF dragSelection = {}
                          THEN {x \in {scope} :
                                  duplicateCheck(db, dragSelection, x)}
                          ELSE {m \in dragSelection :
                                  duplicateCheck(db, dragSelection, m)},
                        Nested(db, dragSelection),
                        {r.origs[k] : k \in 1..Len(r.origs)}, new, FALSE)
  /\ selected' = MultiDraggable
  /\ pendingSelected' = QueueIf(TRUE)
  /\ group' = 0
  /\ UNCHANGED <<mainWorkspace, maxInstances, prototype, dragVars, modeVars,
                 clipVars,
                 ctrlVars, fieldVars, surfaceVars>>

\* The blocks of the stack that starts at b, b included.
RECURSIVE Stack(_, _)
Stack(d, b) ==
  IF getNextBlock(d, b) = Null THEN {b}
  ELSE {b} \cup Stack(d, getNextBlock(d, b))

\* selectAllShortcut.check(block)
selectAllCheck(d, block) == isDeletable(d, block) \/ isMovable(d, block)

\* selectAllShortcut (Ctrl/Alt/Meta + A): preconditionFn and callback.
ShortcutSelectAll ==
  /\ Gesture
  /\ LET tops == {b \in Live(db) : IsBlock(db, b) /\ getParent(db, b) = Null}
         blockList == UNION {Stack(db, b) : b \in {t \in tops :
                                                    selectAllCheck(db, t)}}
         added == {b \in blockList : db[b].type # "drag_to_dupe"}
         sub0 == IF selected = Null THEN subDraggables
                 ELSE clearAll_(subDraggables)
         sel0 == IF selected = Null THEN dragSelection ELSE {}
     IN /\ \E t \in tops : selectAllCheck(db, t)
        /\ dragSelection' = sel0 \cup added
        /\ highlighted' =
             (IF selected = Null THEN highlighted
              ELSE highlighted \ (DOMAIN subDraggables \cup {selected}))
               \cup DOMAIN sub0 \cup added
        /\ subDraggables' =
             [i \in (DOMAIN sub0) \cup added |->
                IF i \in added THEN getRelativeToSurfaceXY(db, i) ELSE sub0[i]]
        /\ selected' = MultiDraggable
        /\ pendingSelected' = QueueIf(TRUE)
        /\ hist' = Observed("selectAll", Null, {}, {}, added, {}, FALSE)
        /\ UNCHANGED <<db, nextId, mainWorkspace, maxInstances, prototype,
                 group, nextGroup, dragVars,
                       modeVars, clipVars, ctrlVars, fieldVars, surfaceVars>>

Next ==
  \/ \E x \in Live(db) \cup {Null} : HostSetSelected(x)
  \/ \E m \in Live(db) : PointerDownMember(m)
  \/ SwitchMainWorkspace
  \/ SelectedEvent
  \/ EnableMultiselect
  \/ \E revert \in BOOLEAN : DisableMultiselect(revert)
  \/ \E x \in Live(db) : DragSelectSignal(x)
  \/ ShortcutDelete
  \/ \E scope \in Live(db) : MenuDelete(scope)
  \/ CompositeDispose
  \/ \E scope \in Live(db) : MenuCollapse(scope)
  \/ ShortcutCopy
  \/ \E scope \in Live(db) : MenuCopy(scope)
  \/ ShortcutCut
  \/ ShortcutPaste
  \/ MenuPaste
  \/ \E scope \in Live(db) : MenuDuplicate(scope)
  \/ ShortcutSelectAll

Spec == Init /\ [][Next]_vars

(* ------------------- properties of the full machine -------------------- *)
\* The commands that fan out over the Selection Set, by hist.op.
BulkOps ==
  {"delete", "menuDelete", "copy", "menuCopy", "cut", "duplicate", "collapse"}

\* C28: a command that runs while an id of the Selection Set names no
\* object passes that id over and does not raise; this holds for the bulk
\* commands and for the clearing of the previous selection by paste.
StaleIdsAreSkipped ==
  [][(/\ \E id \in dragSelection : getByID(db, id) = Null
      /\ gestures' # gestures
      /\ hist'.op \in BulkOps \cup {"paste", "menuPaste"})
       => ~hist'.threw]_vars

\* C23: every id in the Selection Set refers to a block or a workspace
\* comment that is still on the workspace.
SelectionSetIdsAreLive ==
  \A id \in dragSelection : getByID(db, id) # Null

\* C1: whenever no composite drag is in progress, the identifiers of the
\* members of the Composite Draggable are exactly the Selection Set.
MembersMirrorSelection ==
  ~dragging => DOMAIN subDraggables = dragSelection

\* C6: a bulk command acts on the object it was invoked against when the
\* Selection Set is empty, and on every (filtered) member of the Selection
\* Set when it is not, whatever the native selection is.
CommandsActOnMembers ==
  hist.op \in BulkOps => hist.acted = hist.want

\* C7: with Selection Set {A, B}, B nested inside A, a bulk delete sends
\* exactly one dispose request to the host, for A, and none for B.
NestedDeleteOneRequest ==
  (/\ hist.op \in {"delete", "menuDelete"}
   /\ Cardinality(hist.pre) = 2
   /\ Cardinality(hist.nested) = 1)
  => hist.acted = hist.pre \ hist.nested

\* C8: after Duplicate the Selection Set and the members of the Composite
\* Draggable are exactly the newly created duplicates.
DuplicatesBecomeSelection ==
  hist.op = "duplicate" =>
    /\ dragSelection = hist.created
    /\ DOMAIN subDraggables = hist.created

(* ===================== SpecToggle: toggleMember ======================== *)
\* Starts from any Selection Set (mirrored by the composite) and replays
\* updateDraggables_ calls, counting the calls made on each object.
InitToggle ==
  /\ \E w \in Worlds : db = w
  /\ nextId = FirstFree(db)
  /\ selected = Null /\ mainWorkspace = TRUE /\ maxInstances = NoLimit
  /\ group = 0 /\ nextGroup = 1
  /\ pendingSelected = 0
  /\ \E S \in SUBSET Live(db) :
       /\ dragSelection = S
       /\ subDraggables = SubDraggablesOf(db, S)
       /\ hist = [op |-> "init", initSel |-> S,
                  count |-> [i \in Ids |-> 0]]
  /\ highlighted = Highlit(subDraggables, selected)
  /\ prototype = Patched(FALSE)
  /\ topSubDraggables = <<>> /\ mdConnectionDBList = <<>>
  /\ inGroup = FALSE /\ dragging = FALSE
  /\ inMultipleSelectionMode = TRUE
  /\ justUnselectedBlock_ = Null /\ lastSelectedElement_ = Null
  /\ inPasteShortcut = FALSE /\ hasDisableWorkspaceDrag_ = TRUE
  /\ moveDrag = FALSE /\ dragSelect_ = TRUE /\ dragSelects = 1
  /\ origMoveDrag = TRUE
  /\ controls_ = TRUE /\ other = NoSurface /\ Idle
  /\ copyData = <<>> /\ connectionDBList = <<>> /\ SingleTab /\ gestures = 0
  /\ multiFieldUpdate_ = TRUE /\ changeEvent = NoEvent

\* One 'elementselect' / 'elementunselect' signal of the rectangle
\* selection for object x: updateDraggables_(getByID(workspace, x)).
ToggleMember(x) ==
  /\ inMultipleSelectionMode
  /\ hist.count[x] < MaxToggles
  /\ LET st == updateDraggables_(SelState, db, getByID(db, x))
     IN /\ dragSelection' = st.sel
        /\ subDraggables' = st.sub
        /\ justUnselectedBlock_' = st.just
        /\ highlighted' =
             updateDraggablesHighlight(highlighted, subDraggables, st.sub)
  /\ hist' = [hist EXCEPT !.op = "toggle", !.count[x] = @ + 1]
  /\ UNCHANGED <<db, nextId, selected, mainWorkspace, maxInstances, prototype,
                 group, nextGroup,
                 pendingSelected, topSubDraggables, mdConnectionDBList,
                 inGroup, dragging, inMultipleSelectionMode,
                 lastSelectedElement_, inPasteShortcut,
                 hasDisableWorkspaceDrag_, moveDrag, dragSelect_,
                 dragSelects, origMoveDrag, controls_, other, clickVars,
                 copyData,
                 connectionDBList, tabVars, gestures, fieldVars>>

NextToggle == \E x \in Live(db) : ToggleMember(x)

SpecToggle == InitToggle /\ [][NextToggle]_vars

\* C2: after any sequence of toggleMember calls on eligible objects, from
\* any initial Selection Set, an object is a member exactly when its initial
\* membership was flipped an odd number of times: the Selection Set is the
\* symmetric difference of the initial set with the identifiers toggled an
\* odd number of times, whatever the order of the calls.
ToggleIsSymmetricDifference ==
  \A x \in Live(db) :
    Eligible(db, x) =>
      ((x \in dragSelection) <=>
         ((x \in hist.initSel) # (hist.count[x] % 2 = 1)))

\* C2 witness: an eligible member was toggled twice and one eligible
\* non-member once, after a toggle of another object in between.
ToggleWitness ==
  \E x, y \in Live(db) :
    /\ x # y /\ Eligible(db, x) /\ Eligible(db, y)
    /\ hist.count[x] = 2 /\ x \in hist.initSel /\ x \in dragSelection
    /\ hist.count[y] = 1 /\ y \notin hist.initSel /\ y \in dragSelection

(* ================= SpecOracle: hasSelectedParent ======================= *)
\* Blocks of the workspaces the oracle is evaluated on.
MaxGraph == 4

\* Every forest over blocks 1..MaxGraph in which a block hangs under a
\* lower-numbered block, through its next connection or an input, and no
\* block has two next blocks.
Forests ==
  LET Shapes ==
        {sh \in [parent : [1..MaxGraph -> 0..(MaxGraph - 1)],
                 next : [1..MaxGraph -> BOOLEAN]] :
           /\ \A i \in 1..MaxGraph :
                /\ sh.parent[i] < i
                /\ sh.parent[i] = Null => ~sh.next[i]
           /\ \A i, j \in 1..MaxGraph :
                (i # j /\ sh.parent[i] = sh.parent[j] /\ sh.parent[i] # Null)
                   => ~(sh.next[i] /\ sh.next[j])}
  IN {[i \in Ids |->
         IF i > MaxGraph THEN NoObject
         ELSE Block("T", sh.parent[i],
                    IF sh.parent[i] = Null THEN "none"
                    ELSE IF sh.next[i] THEN "next" ELSE "input",
                    TRUE, TRUE, FALSE, <<0, 0>>)] : sh \in Shapes}

InitOracle ==
  /\ \E w \in Forests : db = w
  /\ nextId = FirstFree(db)
  /\ selected = Null /\ mainWorkspace = TRUE /\ maxInstances = NoLimit
  /\ group = 0 /\ nextGroup = 1
  /\ pendingSelected = 0
  /\ \E S \in SUBSET Live(db) :
       /\ dragSelection = S
       /\ subDraggables = SubDraggablesOf(db, S)
  /\ hist = [op |-> "init", block |-> Null, move |-> FALSE, result |-> FALSE]
  /\ highlighted = Highlit(subDraggables, selected)
  /\ prototype = Patched(FALSE)
  /\ topSubDraggables = <<>> /\ mdConnectionDBList = <<>>
  /\ inGroup = FALSE /\ dragging = FALSE
  /\ inMultipleSelectionMode = FALSE
  /\ justUnselectedBlock_ = Null /\ lastSelectedElement_ = Null
  /\ inPasteShortcut = FALSE /\ hasDisableWorkspaceDrag_ = FALSE
  /\ moveDrag = TRUE /\ dragSelect_ = FALSE /\ dragSelects = 0
  /\ origMoveDrag = TRUE
  /\ controls_ = TRUE /\ other = NoSurface /\ Idle
  /\ copyData = <<>> /\ connectionDBList = <<>> /\ SingleTab /\ gestures = 0
  /\ multiFieldUpdate_ = TRUE /\ changeEvent = NoEvent

\* A caller asks hasSelectedParent(block, move).
AskOracle(block, move) ==
  /\ hist.op = "init"
  /\ hist' = [op |-> "hasSelectedParent", block |-> block, move |-> move,
              result |-> hasSelectedParent(db, dragSelection, block, move)]
  /\ UNCHANGED <<db, nextId, selected, mainWorkspace, maxInstances, prototype,
                 highlighted,
                 group, nextGroup,
                 pendingSelected, dragSelection, subDraggables,
                 topSubDraggables, mdConnectionDBList, inGroup, dragging,
                 inMultipleSelectionMode, justUnselectedBlock_,
                 lastSelectedElement_, inPasteShortcut,
                 hasDisableWorkspaceDrag_, moveDrag, dragSelect_,
                 dragSelects, origMoveDrag, controls_, other, clickVars,
                 copyData,
                 connectionDBList, tabVars, gestures, fieldVars>>

NextOracle == \E b \in Live(db), m \in BOOLEAN : AskOracle(b, m)

SpecOracle == InitOracle /\ [][NextOracle]_vars

\* The edge the walk follows: the move parent or the surround parent.
AncestorEdge(d, b, move) ==
  IF move THEN getParent(d, b) ELSE getSurroundParent(d, b)

\* The k-th ancestor of b along the edge (Null once the chain has ended).
RECURSIVE NthAncestor(_, _, _, _)
NthAncestor(d, b, move, k) ==
  IF k = 0 \/ b = Null THEN b
  ELSE NthAncestor(d, AncestorEdge(d, b, move), move, k - 1)

\* The proper ancestors of b along the edge.
ProperAncestors(d, b, move) ==
  {NthAncestor(d, b, move, k) : k \in 1..MaxObj} \ {Null}

\* C3: hasSelectedParent(x, move) is true exactly when some proper ancestor
\* of x along the chosen edge is in the Selection Set; it is false for an
\* object without ancestors, and x's own membership does not matter.
OracleIffSelectedAncestor ==
  hist.op = "hasSelectedParent" =>
    /\ hist.result <=>
         (ProperAncestors(db, hist.block, hist.move) \cap dragSelection # {})
    /\ (ProperAncestors(db, hist.block, hist.move) = {} => ~hist.result)
    /\ hist.result <=>
         hasSelectedParent(db, dragSelection \ {hist.block}, hist.block,
                           hist.move)

\* C3 witness: the answer is true although the direct parent is not
\* selected and x itself is, and the two edges give different answers.
OracleWitness ==
  /\ hist.op = "hasSelectedParent"
  /\ hist.result
  /\ hist.block \in dragSelection
  /\ AncestorEdge(db, hist.block, hist.move) \notin dragSelection
  /\ hasSelectedParent(db, dragSelection, hist.block, ~hist.move)
       # hist.result

(* ===================== SpecDrag: composite drag ======================== *)
\* Composite drags (startDrag .. endDrag) in one run.
MaxDrags == 2

\* Distances the pointer has covered when the host calls drag.
Deltas == {<<1, 0>>, <<-1, 2>>}

\* A stack 1 -> 2 -> 3 and a workspace comment 4.
WorldChain ==
  [i \in Ids |->
     CASE i = 1 -> Block("T", Null, "none", TRUE, TRUE, FALSE, <<0, 0>>)
       [] i = 2 -> Block("T", 1, "next", TRUE, TRUE, FALSE, <<0, 1>>)
       [] i = 3 -> Block("T", 2, "next", TRUE, TRUE, FALSE, <<0, 2>>)
       [] i = 4 -> Comment(TRUE, TRUE, <<2, 2>>)
       [] OTHER -> NoObject]

\* The workspaces composite drags start from.
DragWorlds == {WorldNested, WorldStack, WorldChain}

\* Blockly.utils.Coordinate.sum(a, b)
CoordinateSum(a, b) == <<a[1] + b[1], a[2] + b[2]>>

\* MultiselectDraggable.loc, set by the constructor and never written again.
loc == <<0, 0>>

\* subDraggable.startDrag() on the host: a connected block is unplugged
\* from its parent, together with everything connected under it.
hostStartDrag(d, x) ==
  LET p == d[x].parent
      at == [d EXCEPT ![x].start =
               [set |-> TRUE, loc |-> d[x].pos, parent |-> p,
                conn |-> d[x].conn,
                off |-> IF p = Null THEN <<0, 0>>
                        ELSE <<d[x].pos[1] - d[p].pos[1],
                               d[x].pos[2] - d[p].pos[2]>>]]
  IN IF ~d[x].live THEN d
     ELSE IF IsBlock(d, x) /\ d[x].parent # Null
       THEN [at EXCEPT ![x].parent = Null, ![x].conn = "none"]
     ELSE at

\* The host moves x to newLoc; what is connected under x moves along. A
\* disposed object is nowhere.
moveTo(d, x, newLoc) ==
  LET moved == IF d[x].live THEN {x} \cup Below(d, x) ELSE {}
      dx == newLoc[1] - d[x].pos[1]
      dy == newLoc[2] - d[x].pos[2]
  IN [i \in Ids |->
        IF i \in moved
          THEN [d[i] EXCEPT !.pos = <<d[i].pos[1] + dx, d[i].pos[2] + dy>>]
          ELSE d[i]]

\* connectionDB[0].connect(connectionDB[1]) for the pair c = <<parent,
\* block>>: block becomes the next block of parent and is placed under it.
connectNext(d, c) ==
  IF ~d[c[1]].live \/ ~d[c[2]].live THEN d
  ELSE IF d[c[2]].parent = c[1] /\ d[c[2]].conn = "next" THEN d
  ELSE LET at == moveTo(d, c[2], <<d[c[1]].pos[1], d[c[1]].pos[2] + 1>>)
       IN [at EXCEPT ![c[2]].parent = c[1], ![c[2]].conn = "next"]

startDragTopsAll(d, sel, order) == order

\* The members startDrag pushes on topSubDraggables, in the order it
\* walks subDraggables: blocks without a selected move parent, and every
\* member that is not a block.
startDragTops(d, sel, order) ==
  SelectSeq(order,
            LAMBDA m : IF d[m].kind = "block"
                         THEN ~hasSelectedParent(d, sel, m, TRUE)
                         ELSE TRUE)

\* The pairs startDrag pushes on connectionDBList: <<parent, block>> for
\* every member block that is the next block of a member.
startDragConnections(d, sub, order) ==
  LET ks == SelectSeq(order,
              LAMBDA m : /\ d[m].kind = "block"
                         /\ ~isShadow(d, m)
                         /\ getParent(d, m) # Null
                         /\ getParent(d, m) \in DOMAIN sub
                         /\ getNextBlock(d, getParent(d, m)) = m)
  IN [k \in 1..Len(ks) |-> <<getParent(d, ks[k]), ks[k]>>]

\* for (const draggable of this.topSubDraggables) draggable.startDrag()
RECURSIVE startDragLoop(_, _)
startDragLoop(d, tops) ==
  IF tops = <<>> THEN d
  ELSE startDragLoop(hostStartDrag(d, Head(tops)), Tail(tops))

dragTargetNoOffset(newLoc, snapshot) == newLoc

\* The position drag hands to a member: newLoc plus the member's snapshot.
dragTarget(newLoc, snapshot) == CoordinateSum(newLoc, snapshot)

\* The loop of drag over topSubDraggables; r = [db, acted].
RECURSIVE dragLoop(_, _, _, _)
dragLoop(r, tops, sub, newLoc) ==
  IF tops = <<>> THEN r
  ELSE IF Head(tops) \notin DOMAIN sub
    THEN dragLoop(r, Tail(tops), sub, newLoc)
  ELSE dragLoop([db |-> moveTo(r.db, Head(tops),
                               dragTarget(newLoc, sub[Head(tops)])),
                 acted |-> Append(r.acted, Head(tops))],
                Tail(tops), sub, newLoc)

\* The connectionDBList.forEach loop of endDrag.
RECURSIVE reconnectLoop(_, _)
reconnectLoop(d, conns) ==
  IF conns = <<>> THEN d
  ELSE reconnectLoop(connectNext(d, Head(conns)), Tail(conns))

\* The set of the elements of a list.
Range(list) == {list[k] : k \in 1..Len(list)}

\* Members without any member of the Selection Set among the blocks they
\* hang under; a workspace comment hangs under nothing.
TopLevelMembers(d, sel, members) ==
  {m \in members : ProperAncestors(d, m, TRUE) \cap sel = {}}

\* A composite with members M is the native selection, outside multi-select
\* mode; the Selection Set is M, or part of M where a cut left members
\* behind; an event group may be open.
InitDrag ==
  /\ \E w \in DragWorlds : db = w
  /\ nextId = FirstFree(db)
  /\ selected = MultiDraggable /\ mainWorkspace = TRUE /\ maxInstances = NoLimit
  /\ group \in {0, 1} /\ nextGroup = 2
  /\ pendingSelected = 0
  /\ \E M \in SUBSET {x \in Live(db) : Eligible(db, x)} :
       /\ M # {}
       /\ dragSelection \in SUBSET M
       /\ subDraggables = SubDraggablesOf(db, M)
  /\ highlighted = Highlit(subDraggables, selected)
  /\ prototype = Patched(FALSE)
  /\ topSubDraggables = <<>> /\ mdConnectionDBList = <<>>
  /\ inGroup = FALSE /\ dragging = FALSE
  /\ inMultipleSelectionMode = FALSE
  /\ justUnselectedBlock_ = Null /\ lastSelectedElement_ = Null
  /\ inPasteShortcut = FALSE /\ hasDisableWorkspaceDrag_ = FALSE
  /\ moveDrag = TRUE /\ dragSelect_ = FALSE /\ dragSelects = 0
  /\ origMoveDrag = TRUE
  /\ controls_ = TRUE /\ other = NoSurface /\ Idle
  /\ copyData = <<>> /\ connectionDBList = <<>> /\ SingleTab /\ gestures = 0
  /\ multiFieldUpdate_ = TRUE /\ changeEvent = NoEvent
  /\ hist = [op |-> "init", acted |-> <<>>, want |-> {}, nested |-> {},
             prePos |-> NoSubDraggables, delta |-> <<0, 0>>,
             preGroup |-> group, dragGroup |-> 0, threw |-> FALSE,
             reverted |-> FALSE, afterRevert |-> FALSE]

restVars == <<nextId, selected, mainWorkspace, maxInstances, prototype,
              highlighted, pendingSelected, dragSelection,
              modeVars, clipVars, ctrlVars, fieldVars, surfaceVars>>

\* MultiselectDraggable.startDrag(e), called by the host's dragger when a
\* drag of the native selection begins.
StartDrag ==
  /\ ~dragging
  /\ selected = MultiDraggable
  /\ ~inMultipleSelectionMode
  /\ gestures < MaxDrags
  /\ gestures' = gestures + 1
  /\ inGroup' = (group # 0)
  /\ group' = IF group = 0 THEN nextGroup ELSE group
  /\ nextGroup' = IF group = 0 THEN nextGroup + 1 ELSE nextGroup
  /\ \E order \in Perms(DOMAIN subDraggables) :
       /\ topSubDraggables' =
            topSubDraggables \o startDragTops(db, dragSelection, order)
       /\ mdConnectionDBList' =
            mdConnectionDBList \o startDragConnections(db, subDraggables,
                                                       order)
  /\ subDraggables' = [m \in DOMAIN subDraggables |->
                         getRelativeToSurfaceXY(db, m)]
  /\ db' = startDragLoop(db, topSubDraggables')
  /\ dragging' = TRUE
  /\ hist' = [op |-> "startDrag", acted |-> topSubDraggables',
              want |-> TopLevelMembers(db, dragSelection,
                                       DOMAIN subDraggables),
              nested |-> {m \in dragSelection :
                            ProperAncestors(db, m, TRUE) \cap dragSelection
                              # {}},
              prePos |-> [m \in DOMAIN subDraggables |-> db[m].pos],
              delta |-> <<0, 0>>,
              preGroup |-> group, dragGroup |-> group', threw |-> FALSE,
              reverted |-> FALSE,
              afterRevert |-> hist.op = "endDrag" /\ hist.reverted
                                /\ ~hist.threw]
  /\ UNCHANGED restVars

\* MultiselectDraggable.drag(newLoc, e): the dragger passes the location
\* the composite had at the start of the drag plus the distance covered.
Drag(delta) ==
  /\ dragging
  /\ LET r == dragLoop([db |-> db, acted |-> <<>>], topSubDraggables,
                       subDraggables, CoordinateSum(loc, delta))
     IN /\ db' = r.db
        /\ hist' = [hist EXCEPT !.op = "drag", !.acted = r.acted,
                                !.delta = delta]
  /\ UNCHANGED <<restVars, group, nextGroup, subDraggables, dragVars,
                 gestures>>

endDragGroupClosed(wasInGroup, current) == 0

\* The host's current event group when endDrag returns: the group is
\* closed only when startDrag found none open.
endDragGroup(wasInGroup, current) ==
  IF ~wasInGroup THEN 0 ELSE current

truncateKept(list) == list

\* list.length = 0
truncate(list) ==
  SubSeq(list, 1, 0)

\* The entries of list before the first of the positions in at.
upTo(list, at) ==
  IF at = {} THEN list
  ELSE SubSeq(list, 1, (CHOOSE k \in at : \A j \in at : k <= j) - 1)

\* The positions of topSubDraggables that hold a disposed object.
disposedTops(d, tops) == {k \in 1..Len(tops) : ~d[tops[k]].live}

\* The positions of connectionDBList with a disposed block in the pair.
disposedPairs(d, conns) ==
  {k \in 1..Len(conns) : ~d[conns[k][1]].live \/ ~d[conns[k][2]].live}

\* MultiselectDraggable.endDrag(e). A call the loops make on a disposed
\* object is outside the host's contract: it may raise ("tops": in the
\* loop over topSubDraggables, "connect": in connectionDBList.forEach) or
\* do nothing.
EndDrag ==
  /\ dragging
  /\ \E failAt \in {"none"}
         \cup (IF disposedTops(db, topSubDraggables) # {}
                THEN {"tops"} ELSE {})
         \cup (IF disposedPairs(db, mdConnectionDBList) # {}
                THEN {"connect"} ELSE {}) :
       /\ subDraggables' =
            IF failAt = "tops" THEN subDraggables
            ELSE [m \in DOMAIN subDraggables |->
                    getRelativeToSurfaceXY(db, m)]
       /\ db' = CASE failAt = "tops" -> db
                 [] failAt = "connect" ->
                      reconnectLoop(db,
                        upTo(mdConnectionDBList,
                             disposedPairs(db, mdConnectionDBList)))
                 [] OTHER -> reconnectLoop(db, mdConnectionDBList)
       /\ topSubDraggables' = IF failAt = "none"
                                THEN truncate(topSubDraggables)
                                ELSE topSubDraggables
       /\ mdConnectionDBList' = IF failAt = "none"
                                  THEN truncate(mdConnectionDBList)
                                  ELSE mdConnectionDBList
       /\ group' = IF failAt = "none" THEN endDragGroup(inGroup, group)
                   ELSE group
       /\ hist' = [hist EXCEPT !.op = "endDrag",
                               !.acted = IF failAt = "tops"
                                           THEN upTo(topSubDraggables,
                                                  disposedTops(db,
                                                    topSubDraggables))
                                           ELSE topSubDraggables,
                               !.threw = failAt # "none"]
  /\ dragging' = FALSE
  /\ UNCHANGED <<restVars, nextGroup, inGroup, gestures>>

NextDrag ==
  \/ StartDrag
  \/ \E delta \in Deltas : Drag(delta)
  \/ EndDrag

SpecDrag == InitDrag /\ [][NextDrag]_vars

\* C4: at every step of a composite drag, start, drag and end are
\* forwarded once each to exactly the top-level members (members without
\* a selected ancestor along move parents); a selected block that has a
\* selected ancestor is never among them.
DragForwardedToTopMembers ==
  hist.op \in {"startDrag", "drag", "endDrag"} =>
    /\ Len(hist.acted) = Cardinality(hist.want)
    /\ Range(hist.acted) = hist.want
    /\ Range(hist.acted) \cap hist.nested = {}

\* C4 witness: a drag step was forwarded to a block and to a comment
\* while a selected block stayed under its selected ancestor.
DragForwardWitness ==
  /\ hist.op = "drag"
  /\ hist.nested # {}
  /\ \E a, c \in Range(hist.acted) : IsBlock(db, a) /\ IsComment(db, c)
  /\ \E b \in hist.nested : b \in DOMAIN subDraggables /\ db[b].parent # Null

\* C22: a composite drag leaves the host's current event group as it found
\* it: a group open at startDrag is the group of the whole drag and is
\* still open after endDrag; with none open startDrag opens one, it stays
\* the current group at every step of the drag, and endDrag closes it.
DragKeepsEventGroup ==
  /\ hist.op \in {"startDrag", "drag"} =>
       /\ group # 0
       /\ group = hist.dragGroup
       /\ hist.preGroup # 0 => group = hist.preGroup
  /\ hist.op = "endDrag" => group = hist.preGroup

\* C22 witness: a drag that moved members has ended inside the event group
\* that was open before it, and that group is still the current one.
DragInOpenGroupWitness ==
  /\ hist.op = "endDrag" /\ hist.delta # <<0, 0>>
  /\ hist.preGroup # 0 /\ group = hist.preGroup /\ inGroup

\* C5: after startDrag, drag(delta), endDrag every top-level member is at
\* its position before the drag plus delta, and the offsets between all
\* members are those before the drag.
DragTranslatesMembers ==
  hist.op = "endDrag" =>
    /\ \A m \in hist.want :
         db[m].pos = CoordinateSum(hist.prePos[m], hist.delta)
    /\ \A m, n \in DOMAIN hist.prePos :
         CoordinateSum(db[m].pos, hist.prePos[n])
           = CoordinateSum(db[n].pos, hist.prePos[m])

\* C5 witness: a composite of a block, its selected stack child and an
\* independent block was dragged a distance and dropped.
DragTranslateWitness ==
  /\ hist.op = "endDrag"
  /\ hist.delta # <<0, 0>>
  /\ Cardinality(dragSelection) = 3
  /\ DOMAIN subDraggables = dragSelection
  /\ \E a, b, c \in dragSelection :
       /\ getNextBlock(db, a) = b
       /\ IsBlock(db, c) /\ db[c].parent = Null /\ c # a
       /\ hist.want = {a, c}

(* ================= SpecRevert: cancelled composite drags =============== *)
\* member.revertDrag() on the host for a member whose own drag was started:
\* it is connected to the block it was unplugged from, where that block is
\* now, and goes back to where its drag began when it had no parent.
hostRevertDrag(d, m) ==
  LET st == d[m].start
  IN IF st.parent # Null /\ d[st.parent].live
       THEN [moveTo(d, m, CoordinateSum(d[st.parent].pos, st.off))
               EXCEPT ![m].parent = st.parent, ![m].conn = st.conn]
       ELSE moveTo(d, m, st.loc)

\* Members the host has no drag to revert for: disposed ones, and members
\* startDrag did not forward to. revertDrag calls member.revertDrag() on
\* them all the same; the host may raise or do nothing.
NotDragged(d, sub) == {m \in DOMAIN sub : ~d[m].live \/ ~d[m].start.set}

\* The loop of revertDrag over subDraggables; fails are the members whose
\* revertDrag raises; r = [db, acted, threw].
RECURSIVE revertDragLoop(_, _, _, _)
revertDragLoop(r, order, sub, fails) ==
  IF order = <<>> THEN r
  ELSE IF Head(order) \in fails THEN [r EXCEPT !.threw = TRUE]
  ELSE revertDragLoop(
         [db |-> IF Head(order) \in NotDragged(r.db, sub) THEN r.db
                 ELSE hostRevertDrag(r.db, Head(order)),
          acted |-> Append(r.acted, Head(order)),
          threw |-> FALSE],
         Tail(order), sub, fails)

\* MultiselectDraggable.revertDrag()
RevertDrag ==
  /\ dragging
  /\ \E order \in Perms(DOMAIN subDraggables) :
     \E fails \in SUBSET NotDragged(db, subDraggables) :
       LET r == revertDragLoop([db |-> db, acted |-> <<>>, threw |-> FALSE],
                               order, subDraggables, fails)
       IN /\ db' = r.db
          /\ hist' = [hist EXCEPT !.op = "revertDrag",
                                  !.acted = SortedSeq(Range(r.acted)),
                                  !.threw = r.threw, !.reverted = TRUE]
  /\ UNCHANGED <<restVars, group, nextGroup, subDraggables, dragVars,
                 gestures>>

\* The host disposes a member while the composite is being dragged (code
\* outside the plugin deletes the block or the comment); one member per
\* run, in its last drag.
HostDisposeMember(m) ==
  /\ dragging
  /\ gestures = MaxDrags
  /\ \A x \in DOMAIN subDraggables : db[x].live
  /\ db' = Dispose(db, m, TRUE)
  /\ hist' = [hist EXCEPT !.op = "hostDispose"]
  /\ UNCHANGED <<restVars, group, nextGroup, subDraggables, dragVars,
                 gestures>>

\* The composites of the stack 1 -> 2 -> 3 and the comment 4 that are
\* dragged and cancelled: with a member under a member, with a member
\* unplugged from a block outside, with a comment.
RevertComposites == {{1, 2, 4}, {2, 3}, {1, 3, 4}, {2, 4}}

InitRevert ==
  /\ InitDrag
  /\ db = WorldChain
  /\ dragSelection \in RevertComposites
  /\ DOMAIN subDraggables = dragSelection

NextRevert ==
  \/ StartDrag
  \/ \E delta \in Deltas : Drag(delta)
  \/ RevertDrag
  \/ EndDrag

SpecRevert == InitRevert /\ [][NextRevert]_vars

NextRevertDisposed ==
  \/ NextRevert
  \/ \E m \in DOMAIN subDraggables : HostDisposeMember(m)

SpecRevertDisposed == InitRevert /\ [][NextRevertDisposed]_vars

\* C24: revertDrag completes without failing and leaves every member that
\* is still on the workspace at its position before the drag, also when
\* members were disposed during the drag.
RevertRestoresMembers ==
  hist.op = "revertDrag" =>
    /\ ~hist.threw
    /\ \A m \in DOMAIN hist.prePos : db[m].live => db[m].pos = hist.prePos[m]

\* C25 as stated: after startDrag followed by revertDrag no top-level-member
\* record and no sibling-pair record remains.
RevertLeavesIdle ==
  hist.op = "revertDrag" =>
    topSubDraggables = <<>> /\ mdConnectionDBList = <<>>

\* C25: once the endDrag that ends a cancelled drag has returned, no
\* top-level-member record and no sibling-pair record remains, and the
\* startDrag that follows forwards to each top-level member exactly once.
CancelledDragEndsIdle ==
  /\ (hist.op = "endDrag" /\ hist.reverted /\ ~hist.threw) =>
       topSubDraggables = <<>> /\ mdConnectionDBList = <<>>
  /\ (hist.op = "startDrag" /\ hist.afterRevert) =>
       /\ Len(hist.acted) = Cardinality(hist.want)
       /\ Range(hist.acted) = hist.want
       /\ Len(mdConnectionDBList)
            = Len(startDragConnections(db, subDraggables,
                                       SortedSeq(DOMAIN subDraggables)))

\* C25 witness: a drag with two top-level members and a sibling pair has
\* started after a drag that was cancelled and ended.
CancelledDragWitness ==
  /\ hist.op = "startDrag" /\ hist.afterRevert
  /\ Len(hist.acted) = 2
  /\ mdConnectionDBList # <<>>

(* =================== SpecClipboard: copy and paste ===================== *)
\* The part of the machine that selects, copies and pastes: no object is
\* deleted or changed between a copy and the pastes of what it saved.
InitClipboard ==
  /\ \E w \in SmallWorlds : Constructed(w)
  /\ hist = NoHist

NextClipboard ==
  \/ \E x \in Live(db) \cup {Null} : HostSetSelected(x)
  \/ SelectedEvent
  \/ ShortcutSelectAll
  \/ ShortcutCopy
  \/ \E scope \in Live(db) : MenuCopy(scope)
  \/ ShortcutPaste
  \/ MenuPaste

SpecClipboard == InitClipboard /\ [][NextClipboard]_vars

(* ============= SpecCapacity: paste on a limited workspace ============== *)
\* options.maxInstances the workspace is injected with: none, and limits
\* that leave no room for another "U" block, for any or for a second "T"
\* block.
Limits ==
  {NoLimit,
   [NoLimit EXCEPT !["U"] = [limited |-> TRUE, max |-> 1]],
   [NoLimit EXCEPT !["T"] = [limited |-> TRUE, max |-> 2]],
   [NoLimit EXCEPT !["T"] = [limited |-> TRUE, max |-> 3]]}

InitCapacity ==
  /\ \E limits \in Limits : ConstructedAt(WorldStack, TRUE, limits)
  /\ gestures = 0
  /\ hist = NoHist

NextCapacity ==
  \/ \E x \in Live(db) : DragSelectSignal(x)
  \/ EnableMultiselect
  \/ ShortcutSelectAll
  \/ ShortcutCopy
  \/ ShortcutPaste
  \/ MenuPaste

SpecCapacity == InitCapacity /\ [][NextCapacity]_vars

\* The positions of the block snapshots in data: the k-th of them is what
\* a paste callback pushes k-th on its blockList.
BlockSnapshots(data) ==
  SortedSeq({j \in 1..Len(data) : data[j].kind = "block"})

\* The element pasted from the k-th block snapshot of the clipboard, Null
\* when the snapshot was passed over.
PastedBlock(k) ==
  LET blocks == BlockSnapshots(copyData)
  IN IF k \in 1..Len(blocks) /\ \E e \in Ids : <<blocks[k], e>> \in hist.want
       THEN CHOOSE e \in Ids : <<blocks[k], e>> \in hist.want
       ELSE Null

\* C26: a paste that passes a snapshot over for lack of capacity pastes
\* every other snapshot and adds it to the Selection Set, restores the
\* sibling links between the snapshots it pasted, and completes with the
\* event group closed.
PasteSkipsWithoutCapacity ==
  (/\ hist.op \in {"paste", "menuPaste"}
   /\ \E k \in Ids : <<k, Null>> \in hist.want)
    => /\ ~hist.threw /\ group = 0
       /\ \A c \in hist.want :
            c[2] # Null /\ db[c[2]].type # "drag_to_dupe"
              => c[2] \in dragSelection
       /\ \A a, b \in 1..Len(copyData) :
            PastedBlock(a) # Null /\ PastedBlock(b) # Null
              => (getNextBlock(db, PastedBlock(a)) = PastedBlock(b)
                    <=> <<a, b>> \in Range(connectionDBList))

(* ============ SpecStale: commands on a stale Selection Set ============= *)
\* Gestures in one run of SpecStale.
StaleGestures == 6

InitStale ==
  /\ \E w \in {WorldPair, WorldFlags} : ConstructedAt(w, TRUE, NoLimit)
  /\ gestures = MaxGestures - StaleGestures
  /\ hist = NoHist

NextStale ==
  \/ EnableMultiselect
  \/ \E x \in Live(db) : DragSelectSignal(x)
  \/ ShortcutSelectAll
  \/ ShortcutCopy
  \/ CompositeDispose
  \/ ShortcutDelete
  \/ ShortcutCut
  \/ \E scope \in Live(db) : MenuCollapse(scope)
  \/ ShortcutPaste
  \/ MenuPaste

SpecStale == InitStale /\ [][NextStale]_vars

\* C30: the composite's dispose() disposes every member that is deletable
\* and no member that is not, and leaves the composite without members.
DisposeClearsComposite ==
  [][hist'.op = "dispose" =>
       /\ \A m \in DOMAIN subDraggables :
            /\ isDeletable(db, m) => ~db'[m].live
            /\ (db[m].live /\ ~isDeletable(db, m)) => db'[m].live
       /\ DOMAIN subDraggables' = {}]_vars

(* ================ SpecCut: cut, copy and paste of stacks =============== *)
InitCut ==
  /\ Constructed(WorldChain)
  /\ hist = NoHist

NextCut ==
  \/ \E x \in Live(db) : DragSelectSignal(x)
  \/ EnableMultiselect
  \/ ShortcutSelectAll
  \/ ShortcutCopy
  \/ ShortcutCut
  \/ ShortcutPaste

SpecCut == InitCut /\ [][NextCut]_vars

\* C27: every sibling pair a copy or a cut records designates, among the
\* block snapshots in the order a paste lists them, the snapshot of a block
\* and the snapshot of the block that was its next block.
SiblingPairsDesignateSnapshots ==
  [][hist'.op \in {"copy", "cut"} =>
       \A c \in Range(connectionDBList') :
         LET blocks == BlockSnapshots(copyData')
         IN /\ c[1] \in 1..Len(blocks) /\ c[2] \in 1..Len(blocks)
            /\ getNextBlock(db, copyData'[blocks[c[1]]].blocks[1].id)
                 = copyData'[blocks[c[2]]].blocks[1].id]_vars

\* The object the k-th snapshot of the clipboard was taken from.
Original(k) == copyData[k].blocks[1].id

\* The objects the last paste created, in the order it created them.
PastedList == SortedSeq(hist.created)

\* What copy followed by paste guarantees whatever the types: one new
\* object per snapshot, under an identifier none of the originals has, of
\* the type and with the field value of its original, the copies being
\* stacked on each other exactly where their originals are.
PasteRebuildsCopies ==
  /\ Len(PastedList) = Len(copyData)
  /\ \A k \in 1..Len(copyData) :
       /\ \A j \in 1..Len(copyData) : PastedList[k] # Original(j)
       /\ db[PastedList[k]].live
       /\ db[PastedList[k]].kind = db[Original(k)].kind
       /\ db[PastedList[k]].type = db[Original(k)].type
       /\ db[PastedList[k]].field = db[Original(k)].field
       /\ \A j \in 1..Len(copyData) :
            (getNextBlock(db, PastedList[j]) = PastedList[k])
              <=> (getNextBlock(db, Original(j)) = Original(k))

WorldFields ==
  [i \in Ids |->
     CASE i = 1 -> Block("T", Null, "none", TRUE, TRUE, FALSE, <<0, 0>>)
       [] i = 2 -> [Block("T", Null, "none", TRUE, TRUE, FALSE, <<2, 0>>)
                      EXCEPT !.hasField = FALSE]
       [] i = 3 -> Block("T", Null, "none", TRUE, TRUE, FALSE, <<0, 2>>)
       [] i = 4 -> Block("U", Null, "none", TRUE, TRUE, FALSE, <<2, 2>>)
       [] OTHER -> NoObject]

\* The workspaces fields are edited in.
FieldWorlds == {WorldFields, WorldNested}

propagatesAnyGroup(e, sel, enabled) ==
  /\ enabled
  /\ e.blockId \in sel
  /\ \/ e.type = "change" /\ e.recordUndo
     \/ e.type = "block_field_intermediate_change"

\* The test of eventListener_ on event e: propagation is on, the edited
\* block is in the Selection Set, and e is an undoable field change fired
\* outside any group or an intermediate change.
propagates(e, sel, enabled) ==
  /\ enabled
  /\ e.blockId \in sel
  /\ \/ e.type = "change" /\ e.recordUndo /\ e.group = 0
     \/ e.type = "block_field_intermediate_change"

\* The dragSelection_.forEach loop of eventListener_ inside its try block:
\* block.setFieldValue throws on a block without the field, which ends the
\* loop; r = [db, written, threw].
RECURSIVE fieldLoop(_, _, _)
fieldLoop(r, e, order) ==
  IF order = <<>> \/ r.threw THEN r
  ELSE LET id == Head(order)
           block == getBlockById(r.db, id)
       IN IF id = e.blockId \/ block = Null
             \/ r.db[id].type # r.db[e.blockId].type
            THEN fieldLoop(r, e, Tail(order))
          ELSE IF ~r.db[id].hasField
            THEN [r EXCEPT !.threw = TRUE]
          ELSE fieldLoop([r EXCEPT !.db[id].field = e.newValue,
                                   !.written = @ \cup {id}],
                         e, Tail(order))

\* Multiselect.eventListener_(e) with the Selection Set visited in the
\* given order; the result holds the workspace, the group the event ends
\* up in, the group the other blocks were written in, the blocks written
\* and whether the try block was left by an exception.
eventListener_(e, d, sel, enabled, currentGroup, fresh, order) ==
  IF ~propagates(e, sel, enabled)
    THEN [db |-> d, eGroup |-> e.group, writeGroup |-> 0, written |-> {},
          threw |-> FALSE, opened |-> FALSE]
  ELSE LET r == IF getBlockById(d, e.blockId) = Null
                  THEN [db |-> d, written |-> {}, threw |-> TRUE]
                  ELSE fieldLoop([db |-> d, written |-> {}, threw |-> FALSE],
                                 e, order)
       IN [db |-> r.db,
           eGroup |-> IF currentGroup = 0 THEN fresh ELSE e.group,
           writeGroup |-> IF currentGroup = 0 THEN fresh ELSE currentGroup,
           written |-> r.written, threw |-> r.threw,
           opened |-> currentGroup = 0]

\* Field edits in one run.
MaxEdits == 2

\* Nothing was edited yet; events holds the blocks whose write by the
\* listener fired a change event that the host has not delivered yet.
NoEdit ==
  [op |-> "none", blockId |-> Null, newValue |-> "old",
   preField |-> [i \in Ids |-> "old"], sel |-> {}, applicable |-> FALSE,
   eGroup |-> 0, writeGroup |-> 0, written |-> {}, threw |-> FALSE,
   within |-> FALSE, events |-> {}]

\* Some eligible objects form the Selection Set, mirrored by the
\* composite; an event group may be open (the edit is made by code that
\* runs inside one); the multiFieldUpdate option is on or off.
InitField ==
  /\ \E w \in FieldWorlds : db = w
  /\ nextId = FirstFree(db)
  /\ mainWorkspace = TRUE /\ maxInstances = NoLimit /\ group \in {0, 1}
  /\ nextGroup = 2
  /\ pendingSelected = 0
  /\ \E S \in SUBSET {x \in Live(db) : Eligible(db, x)} :
       /\ dragSelection = S
       /\ subDraggables = SubDraggablesOf(db, S)
       /\ selected = IF S = {} THEN Null ELSE MultiDraggable
  /\ highlighted = Highlit(subDraggables, selected)
  /\ prototype = Patched(FALSE)
  /\ topSubDraggables = <<>> /\ mdConnectionDBList = <<>>
  /\ inGroup = FALSE /\ dragging = FALSE
  /\ inMultipleSelectionMode = FALSE
  /\ justUnselectedBlock_ = Null /\ lastSelectedElement_ = Null
  /\ inPasteShortcut = FALSE /\ hasDisableWorkspaceDrag_ = FALSE
  /\ moveDrag = TRUE /\ dragSelect_ = FALSE /\ dragSelects = 0
  /\ origMoveDrag = TRUE
  /\ controls_ = TRUE /\ other = NoSurface /\ Idle
  /\ copyData = <<>> /\ connectionDBList = <<>> /\ SingleTab /\ gestures = 0
  /\ multiFieldUpdate_ \in BOOLEAN
  /\ changeEvent = NoEvent
  /\ hist = NoEdit

fieldFrame == <<nextId, selected, mainWorkspace, maxInstances, prototype,
                highlighted, pendingSelected,
                dragSelection, subDraggables, dragVars, modeVars, clipVars,
                ctrlVars, multiFieldUpdate_, surfaceVars>>

\* The user edits the field of block x: the host writes the value and
\* fires a field event carrying the group that is current.
FieldEdit(x, v, type, recordUndo) ==
  /\ changeEvent = NoEvent
  /\ gestures < MaxEdits
  /\ gestures' = gestures + 1
  /\ IsBlock(db, x) /\ db[x].hasField /\ v # db[x].field
  /\ type = "block_field_intermediate_change" => ~recordUndo
  /\ db' = [db EXCEPT ![x].field = v]
  /\ changeEvent' = [type |-> type, blockId |-> x, newValue |-> v,
                     recordUndo |-> recordUndo, group |-> group]
  /\ hist' = NoEdit
  /\ UNCHANGED <<fieldFrame, group, nextGroup>>

withoutGroupKeep(oldGroup, fresh) == oldGroup

\* The group that is current while func runs in withoutMultiFieldUpdates:
\* the group found open, else a fresh one (setGroup(true)).
withoutGroup(oldGroup, fresh) ==
  IF oldGroup = 0 THEN fresh ELSE oldGroup

\* Multiselect.withoutMultiFieldUpdates(func), func writing the field of
\* block x: the write happens in a group, the group is restored after.
WithoutMultiFieldUpdates(x, v) ==
  /\ changeEvent = NoEvent
  /\ gestures < MaxEdits
  /\ gestures' = gestures + 1
  /\ IsBlock(db, x) /\ db[x].hasField /\ v # db[x].field
  /\ db' = [db EXCEPT ![x].field = v]
  /\ changeEvent' = [type |-> "change", blockId |-> x, newValue |-> v,
                     recordUndo |-> TRUE,
                     group |-> withoutGroup(group, nextGroup)]
  /\ nextGroup' = IF group = 0 THEN nextGroup + 1 ELSE nextGroup
  /\ hist' = [NoEdit EXCEPT !.op = "without", !.blockId = x,
                            !.newValue = v, !.sel = dragSelection,
                            !.eGroup = withoutGroup(group, nextGroup),
                            !.within = TRUE]
  /\ UNCHANGED <<fieldFrame, group>>

\* The host delivers the fired field event to eventListener_.
DeliverChange ==
  /\ changeEvent # NoEvent
  /\ \E order \in Perms(dragSelection) :
       LET r == eventListener_(changeEvent, db, dragSelection,
                               multiFieldUpdate_, group, nextGroup, order)
       IN /\ db' = r.db
          /\ nextGroup' = IF r.opened THEN nextGroup + 1 ELSE nextGroup
          /\ hist' = [op |-> "propagate", blockId |-> changeEvent.blockId,
                      newValue |-> changeEvent.newValue,
                      preField |-> [i \in Ids |-> db[i].field],
                      sel |-> dragSelection,
                      applicable |-> propagates(changeEvent, dragSelection,
                                                multiFieldUpdate_),
                      eGroup |-> r.eGroup, writeGroup |-> r.writeGroup,
                      written |-> r.written, threw |-> r.threw,
                      within |-> hist.op = "without",
                      events |-> r.written]
  /\ changeEvent' = NoEvent
  /\ UNCHANGED <<fieldFrame, group, gestures>>

NextField ==
  \/ \E x \in Live(db), v \in FieldValues, type \in EventTypes,
        recordUndo \in BOOLEAN : FieldEdit(x, v, type, recordUndo)
  \/ \E x \in Live(db), v \in FieldValues : WithoutMultiFieldUpdates(x, v)
  \/ DeliverChange

SpecField == InitField /\ [][NextField]_vars

\* C10: when the field of a Selection Set member is edited while
\* propagation is enabled, every other member of the same type gets the
\* new value, in the event group of the edit, and no member of another
\* type and no non-member is written.
FieldEditReachesSameType ==
  (hist.op = "propagate" /\ hist.applicable) =>
    /\ \A y \in hist.sel \ {hist.blockId} :
         (/\ IsBlock(db, y)
          /\ db[y].type = db[hist.blockId].type
          /\ db[y].hasField)
         => db[y].field = hist.newValue
    /\ hist.written # {} =>
         (hist.writeGroup # 0 /\ hist.writeGroup = hist.eGroup)
    /\ \A i \in Live(db) \ {hist.blockId} :
         (i \notin hist.sel \/ db[i].type # db[hist.blockId].type)
         => db[i].field = hist.preField[i]

\* C29: when writing the propagated value fails on one member, the
\* failure does not leave eventListener_ and every other member of the
\* edited block's type that has the field still gets the value.
FieldFailureDoesNotAbort ==
  (hist.op = "propagate" /\ hist.applicable /\ hist.threw) =>
    \A y \in hist.sel \ {hist.blockId} :
      (/\ IsBlock(db, y)
       /\ db[y].type = db[hist.blockId].type
       /\ db[y].hasField)
      => y \in hist.written

\* C15: a field event fired by a write that func made inside
\* withoutMultiFieldUpdates is not propagated: no other block is written,
\* whether or not a group was open when withoutMultiFieldUpdates was called.
NoPropagationInsideWithout ==
  (hist.op = "propagate" /\ hist.within) =>
    /\ hist.written = {}
    /\ \A i \in Live(db) \ {hist.blockId} : db[i].field = hist.preField[i]

\* Such an event was delivered, with no group open at the call, while
\* propagation was on and another member of the same type held another
\* value in the field.
NoPropagationWitness ==
  /\ hist.op = "propagate" /\ hist.within
  /\ group = 0
  /\ multiFieldUpdate_
  /\ hist.blockId \in hist.sel
  /\ \E y \in hist.sel \ {hist.blockId} :
       /\ IsBlock(db, y) /\ db[y].type = db[hist.blockId].type
       /\ db[y].hasField /\ db[y].field # hist.newValue

\* C17: after Multiselect.dispose() the Selection Set is empty and the
\* composite has no members.
PluginDisposeClears ==
  hist.op = "pluginDispose" =>
    /\ dragSelection = {}
    /\ DOMAIN subDraggables = {}

(* ============ SpecDelete: the Delete label and its callback ============ *)
InitDelete ==
  /\ \E w \in Worlds : Constructed(w)
  /\ hist = NoHist

NextDelete ==
  \/ \E x \in Live(db) \cup {Null} : HostSetSelected(x)
  \/ SelectedEvent
  \/ EnableMultiselect
  \/ \E revert \in BOOLEAN : DisableMultiselect(revert)
  \/ \E x \in Live(db) : DragSelectSignal(x)
  \/ ShortcutSelectAll
  \/ \E scope \in Live(db) : MenuDelete(scope)

SpecDelete == InitDelete /\ [][NextDelete]_vars

\* C21: the count in the Delete label is the number of blocks the bulk
\* delete removes.
DeleteLabelCountsRemoved ==
  [][(hist'.op = "menuDelete" /\ selected = MultiDraggable
        /\ dragSelection # {}) =>
       shownCount(descendantCount(db, dragSelection, dragSelection)) =
         shownCount(Cardinality(Live(db) \ Live(db')))]_vars

(* ============== SpecLabels: the counts in the menu labels ============== *)
\* WorldPair with block 1 and the block 2 in its input enabled or disabled.
LabelWorlds ==
  {[WorldPair EXCEPT ![1].enabled = e1, ![2].enabled = e2] :
     e1 \in BOOLEAN, e2 \in BOOLEAN}

InitLabels ==
  /\ \E w \in LabelWorlds : Constructed(w)
  /\ hist = NoHist

NextLabels ==
  \/ \E x \in Live(db) \cup {Null} : HostSetSelected(x)
  \/ SelectedEvent
  \/ EnableMultiselect
  \/ \E revert \in BOOLEAN : DisableMultiselect(revert)
  \/ \E x \in Live(db) : DragSelectSignal(x)
  \/ ShortcutSelectAll
  \/ \E scope \in Live(db) : MenuDisable(scope)

SpecLabels == InitLabels /\ [][NextLabels]_vars

\* C20: the label of the enable / disable command carries a count exactly
\* when more than one selected block is changed by the command, and the
\* count is the number of blocks changed.
ShownCountIsChangedCount ==
  (hist.op = "disable" /\ hist.pre # {}) =>
    shownCount(Cardinality(hist.want)) = shownCount(Cardinality(hist.acted))

(* ============== SpecTabs: two tabs sharing localStorage ================ *)
\* Date.now() values the clock takes.
MaxClock == 3

\* What the user of the second tab copies there: the comment or the outer
\* block of a workspace like WorldPair.
OtherPayloads ==
  {[multi |-> Snapshots(WorldPair, <<3>>), conn |-> <<>>],
   [multi |-> Snapshots(WorldPair, <<1>>), conn |-> <<>>]}

\* A copy or cut callback in the second tab, ending in dataCopyToStorage().
OtherTabCopy(p) ==
  /\ Gesture
  /\ otherTab' = [copyData |-> p.multi, conn |-> p.conn, timestamp |-> now]
  /\ localStorage' = dataCopyToStorage(p.multi, p.conn, now)
  /\ lastCopy' = dataCopyToStorage(p.multi, p.conn, now)
  /\ hist' = Observed("otherCopy", Null, {}, {}, {}, {}, FALSE)
  /\ UNCHANGED <<db, nextId, selected, mainWorkspace, maxInstances, prototype,
                 highlighted,
                 group, nextGroup,
                 pendingSelected, dragSelection, subDraggables, dragVars,
                 modeVars, copyData, connectionDBList, timestamp, now,
                 ctrlVars, fieldVars, surfaceVars>>

\* A paste callback in the second tab: dataCopyFromStorage(), then the
\* payload is pasted there.
OtherTabPaste ==
  /\ Gesture
  /\ otherTab' = dataCopyFromStorage(localStorage, otherTab.copyData,
                                     otherTab.conn, otherTab.timestamp)
  /\ hist' = Observed("otherPaste", Null, {}, {}, {}, {}, FALSE)
  /\ UNCHANGED <<db, nextId, selected, mainWorkspace, maxInstances, prototype,
                 highlighted,
                 group, nextGroup,
                 pendingSelected, dragSelection, subDraggables, dragVars,
                 modeVars, copyData, connectionDBList, timestamp, now,
                 localStorage, lastCopy, ctrlVars, fieldVars, surfaceVars>>

\* A millisecond passes.
Tick ==
  /\ now < MaxClock
  /\ now' = now + 1
  /\ UNCHANGED <<db, nextId, selected, mainWorkspace, maxInstances, prototype,
                 highlighted,
                 group, nextGroup,
                 pendingSelected, dragSelection, subDraggables, dragVars,
                 modeVars, copyData, connectionDBList, timestamp,
                 localStorage, otherTab, lastCopy, ctrlVars, fieldVars,
                 surfaceVars, gestures, hist>>

InitTabs ==
  /\ Constructed(WorldPair)
  /\ hist = NoHist

NextTabs ==
  \/ \E x \in Live(db) \cup {Null} : HostSetSelected(x)
  \/ SelectedEvent
  \/ ShortcutCopy
  \/ ShortcutCut
  \/ ShortcutPaste
  \/ MenuPaste
  \/ \E p \in OtherPayloads : OtherTabCopy(p)
  \/ OtherTabPaste
  \/ Tick

SpecTabs == InitTabs /\ [][NextTabs]_vars

\* C19: a paste in either tab uses the snapshots and the sibling pairs of
\* the most recent copy or cut made in any tab.
PasteUsesLatestCopy ==
  /\ (hist.op \in {"paste", "menuPaste"} /\ lastCopy.present) =>
       /\ copyData = lastCopy.multi
       /\ connectionDBList = lastCopy.conn
  /\ (hist.op = "otherPaste" /\ lastCopy.present) =>
       /\ otherTab.copyData = lastCopy.multi
       /\ otherTab.conn = lastCopy.conn

(* ============ SpecSurfaces: two workspaces with the plugin ============ *)

\* The Selection Sets the second workspace can hold (its own objects).
OtherSelections == {{1}, {1, 2}}

\* This workspace as constructed, next to a second workspace whose user has
\* selected some of its objects: its composite is the native selection and
\* it is the main workspace, inside or outside multi-select mode.
InitSurfaces ==
  /\ db = WorldPair
  /\ nextId = FirstFree(db)
  /\ selected = OtherDraggable
  /\ lastSelectedElement_ = Null
  /\ mainWorkspace = FALSE /\ maxInstances = NoLimit
  /\ group = 0 /\ nextGroup = 1
  /\ pendingSelected = 0
  /\ dragSelection = {} /\ subDraggables = NoSubDraggables
  /\ highlighted = Highlit(subDraggables, selected)
  /\ prototype = Patched(TRUE)
  /\ topSubDraggables = <<>> /\ mdConnectionDBList = <<>>
  /\ inGroup = FALSE /\ dragging = FALSE
  /\ inMultipleSelectionMode = FALSE
  /\ justUnselectedBlock_ = Null
  /\ inPasteShortcut = FALSE
  /\ hasDisableWorkspaceDrag_ = FALSE
  /\ moveDrag = TRUE /\ origMoveDrag = TRUE
  /\ controls_ = TRUE /\ Idle
  /\ \E mode \in BOOLEAN, sel \in OtherSelections :
       other = [present |-> TRUE, mode |-> mode, sel |-> sel,
                sub |-> [i \in sel |-> <<0, i>>], just |-> Null,
                last |-> Null, inPaste |-> FALSE]
  /\ dragSelect_ = FALSE /\ dragSelects = 0
  /\ copyData = <<>> /\ connectionDBList = <<>> /\ SingleTab
  /\ multiFieldUpdate_ = TRUE /\ changeEvent = NoEvent
  /\ gestures = 0
  /\ hist = NoHist

\* What the user does on this workspace, and the notifications it causes.
NextSurfaces ==
  \/ \E x \in Live(db) \cup {Null} : HostSetSelected(x)
  \/ SwitchMainWorkspace
  \/ SelectedEvent
  \/ EnableMultiselect
  \/ \E revert \in BOOLEAN : DisableMultiselect(revert)
  \/ \E x \in Live(db) : DragSelectSignal(x)
  \/ ShortcutSelectAll
  \/ ShortcutDelete

SpecSurfaces == InitSurfaces /\ [][NextSurfaces]_vars

\* C18: nothing done on this workspace, and no event coming from it, changes
\* the Selection Set, the mode flag or the composite's members of the other
\* workspace.
OtherSurfaceUntouched ==
  [][/\ other'.sel = other.sel
     /\ other'.mode = other.mode
     /\ DOMAIN other'.sub = DOMAIN other.sub]_vars

(* ============ SpecGroup: commands and edits inside a group ============= *)
\* The field machine together with the delete and collapse commands: a
\* command may be started (by a caller of its callback) while an event
\* group is open.
GroupWorlds == {WorldPair}

\* As InitField, on a smaller workspace.
InitGroup ==
  /\ db \in GroupWorlds
  /\ nextId = FirstFree(db)
  /\ mainWorkspace = TRUE /\ maxInstances = NoLimit /\ group \in {0, 1}
  /\ nextGroup = 2
  /\ pendingSelected = 0
  /\ \E S \in SUBSET {x \in Live(db) : Eligible(db, x)} :
       /\ dragSelection = S
       /\ subDraggables = SubDraggablesOf(db, S)
       /\ selected = IF S = {} THEN Null ELSE MultiDraggable
  /\ highlighted = Highlit(subDraggables, selected)
  /\ prototype = Patched(FALSE)
  /\ topSubDraggables = <<>> /\ mdConnectionDBList = <<>>
  /\ inGroup = FALSE /\ dragging = FALSE
  /\ inMultipleSelectionMode = FALSE
  /\ justUnselectedBlock_ = Null /\ lastSelectedElement_ = Null
  /\ inPasteShortcut = FALSE /\ hasDisableWorkspaceDrag_ = FALSE
  /\ moveDrag = TRUE /\ dragSelect_ = FALSE /\ dragSelects = 0
  /\ origMoveDrag = TRUE
  /\ controls_ = TRUE /\ other = NoSurface /\ Idle
  /\ copyData = <<>> /\ connectionDBList = <<>> /\ SingleTab /\ gestures = 0
  /\ multiFieldUpdate_ \in BOOLEAN
  /\ changeEvent = NoEvent
  /\ hist = NoEdit

NextGroup ==
  \/ NextField
  \/ ShortcutDelete
  \/ \E scope \in Live(db) : MenuDelete(scope)
  \/ \E scope \in Live(db) : MenuCollapse(scope)

SpecGroup == InitGroup /\ [][NextGroup]_vars

\* C16: a bulk command, a field propagation or a withoutMultiFieldUpdates
\* call leaves current the group it found current (none if it found none),
\* and what it writes is written in the group it found, or in one fresh
\* group if it found none.
GroupJoinedAndRestored ==
  [][(hist'.op \in BulkOps \cup {"propagate", "without"}) =>
       /\ group' = group
       /\ (hist'.op = "propagate" /\ hist'.written # {}) =>
            hist'.writeGroup = IF group # 0 THEN group ELSE nextGroup
       /\ hist'.op = "without" =>
            hist'.eGroup = IF group # 0 THEN group ELSE nextGroup]_vars

(* =============== SpecMode: selection and mode switching ================ *)
\* The part of the machine that selects and switches mode: the objects on
\* the workspace stay as they are.
\* The objects of the workspace; it is injected with dragging on or off.
ModeWorlds == SmallWorlds \cup {WorldFlags}

\* The state after construction, or after one click on object x outside
\* multi-select mode whose SELECTED notification has been handled: x is the
\* native selection and the last selected element.
InitMode ==
  /\ db \in ModeWorlds
  /\ nextId = FirstFree(db)
  /\ selected \in Live(db) \cup {Null}
  /\ lastSelectedElement_ = selected
  /\ mainWorkspace = TRUE /\ maxInstances = NoLimit
  /\ group = 0 /\ nextGroup = 1
  /\ pendingSelected = 0
  /\ dragSelection = {} /\ subDraggables = NoSubDraggables
  /\ highlighted = Highlit(subDraggables, selected)
  /\ prototype = Patched(FALSE)
  /\ topSubDraggables = <<>> /\ mdConnectionDBList = <<>>
  /\ inGroup = FALSE /\ dragging = FALSE
  /\ inMultipleSelectionMode = FALSE
  /\ justUnselectedBlock_ = Null
  /\ inPasteShortcut = FALSE
  /\ hasDisableWorkspaceDrag_ = FALSE
  /\ moveDrag \in BOOLEAN
  /\ origMoveDrag = moveDrag
  /\ controls_ = TRUE /\ other = NoSurface /\ Idle
  /\ dragSelect_ = FALSE /\ dragSelects = 0
  /\ copyData = <<>> /\ connectionDBList = <<>> /\ SingleTab
  /\ multiFieldUpdate_ = TRUE /\ changeEvent = NoEvent
  /\ gestures = 0
  /\ hist = NoHist

NextMode ==
  \/ \E x \in Live(db) \cup {Null} : HostSetSelected(x)
  \/ \E m \in Live(db) : PointerDownMember(m)
  \/ SwitchMainWorkspace
  \/ SelectedEvent
  \/ EnableMultiselect
  \/ \E revert \in BOOLEAN : DisableMultiselect(revert)
  \/ \E x \in Live(db) : DragSelectSignal(x)
  \/ ShortcutSelectAll
  \/ PluginDispose

SpecMode == InitMode /\ [][NextMode]_vars

\* C11: in multi-select mode workspace dragging is off; in normal mode it
\* is what the workspace was injected with, however often the mode was
\* entered and left.
PanningSuspendedAndRestored ==
  /\ inMultipleSelectionMode => ~moveDrag
  /\ ~inMultipleSelectionMode => moveDrag = origMoveDrag

\* The mode was entered and left twice on a workspace injected with
\* dragging on, and dragging is on again.
PanningRestoredWitness ==
  /\ gestures >= 4
  /\ hist.op = "leave"
  /\ ~inMultipleSelectionMode
  /\ origMoveDrag /\ moveDrag

\* C12 (as amended): outside multi-select mode, a SELECTED notification
\* for a native selection that is a single object outside the Selection
\* Set empties the Selection Set; the object stays the native selection and
\* becomes the last selected element, not a member.
NormalSelectEmptiesSelection ==
  (/\ hist.op = "selectedNormal"
   /\ hist.preSelected \in Ids
   /\ hist.preSelected \notin hist.pre)
  => /\ dragSelection = {}
     /\ DOMAIN subDraggables = {}
     /\ selected = hist.preSelected
     /\ lastSelectedElement_ = hist.preSelected

\* A non-member became the native selection while the Selection Set had
\* members, and the notification has been handled.
NormalSelectWitness ==
  /\ hist.op = "selectedNormal"
  /\ hist.preSelected \in Ids
  /\ hist.pre # {}
  /\ hist.preSelected \notin hist.pre

\* C12 (as stated): after that notification the Selection Set is exactly
\* the newly selected object.
NormalSelectSoleMember ==
  (/\ hist.op = "selectedNormal"
   /\ hist.preSelected \in Ids
   /\ hist.preSelected \notin hist.pre)
  => dragSelection = {hist.preSelected}

\* C13: in multi-select mode, a SELECTED notification that finds the native
\* selection on the member that was just removed moves it to the composite
\* when members remain and clears it when none remains.
RemovedMemberLosesNativeSelection ==
  (/\ hist.op = "selectedMulti"
   /\ hist.preSelected \in Ids
   /\ hist.target = hist.preSelected
   /\ hist.preSelected \notin hist.pre)
  => selected = IF hist.pre # {} THEN MultiDraggable ELSE Null

\* C14: when multi-select mode is left (key up, icon, or focus loss with
\* or without the revert of the last unselected block) with members in the
\* Selection Set and no native selection, the composite becomes the native
\* selection.
LeaveSelectsComposite ==
  (/\ hist.op \in {"leave", "blurRevert"}
   /\ dragSelection # {}
   /\ hist.preSelected = Null)
  => selected = MultiDraggable

\* The mode was left by a focus loss that put the last unselected block
\* back, nothing was selected natively, and the composite now is.
LeaveSelectsWitness ==
  /\ hist.op = "blurRevert"
  /\ hist.pre = {}
  /\ dragSelection # {}
  /\ hist.preSelected = Null
  /\ selected = MultiDraggable


(* ------------------------ selected highlight ---------------------------- *)
\* C31: whenever a step removes an object from the Selection Set and the
\* object is still on the workspace after the step, the object does not
\* carry the "selected" highlight after the step.
RemovalDropsHighlight ==
  [][\A x \in dragSelection \ dragSelection' :
       db'[x].live => x \notin highlighted']_vars


(* ---------------------- rectangle-drag input source --------------------- *)
\* C32: at most one DragSelect instance listens, one listens exactly while
\* multi-select mode is on and it is the one the controls hold; outside the
\* mode, also after a leave by key-up, focus loss, icon or dispose, none
\* listens, so no selection signal reaches updateDraggables_.
DragSelectAttachedInMode ==
  /\ dragSelects <= 1
  /\ (dragSelects = 1) = inMultipleSelectionMode
  /\ dragSelect_ = inMultipleSelectionMode

\* The mode was left, by focus loss or by dispose, after rectangle signals
\* had put members in the Selection Set, and no instance listens.
DragSelectStoppedWitness ==
  /\ hist.op \in {"blurRevert", "pluginDispose"}
  /\ dragSelection # {}
  /\ ~inMultipleSelectionMode /\ dragSelects = 0


(* ------------------- init and dispose of the instances ------------------ *)
\* A workspace and Blockly before any Multiselect instance is constructed.
InitPatch ==
  /\ db = WorldPair
  /\ nextId = FirstFree(db)
  /\ selected = Null
  /\ mainWorkspace = TRUE /\ maxInstances = NoLimit
  /\ group = 0 /\ nextGroup = 1
  /\ pendingSelected = 0
  /\ dragSelection = {} /\ subDraggables = NoSubDraggables
  /\ highlighted = {}
  /\ prototype = Unpatched
  /\ topSubDraggables = <<>> /\ mdConnectionDBList = <<>>
  /\ inGroup = FALSE /\ dragging = FALSE
  /\ inMultipleSelectionMode = FALSE
  /\ justUnselectedBlock_ = Null /\ lastSelectedElement_ = Null
  /\ inPasteShortcut = FALSE
  /\ hasDisableWorkspaceDrag_ = FALSE
  /\ moveDrag = TRUE /\ origMoveDrag = TRUE
  /\ dragSelect_ = FALSE /\ dragSelects = 0
  /\ controls_ = FALSE /\ other = NoSurface /\ Idle
  /\ copyData = <<>> /\ connectionDBList = <<>> /\ SingleTab
  /\ multiFieldUpdate_ = TRUE /\ changeEvent = NoEvent
  /\ gestures = 0
  /\ hist = NoHist

\* What init and dispose of an instance leave alone on this workspace.
patchFrame == <<db, nextId, selected, mainWorkspace, maxInstances,
                highlighted, group, nextGroup, pendingSelected,
                dragSelection, subDraggables, dragVars, modeVars, clipVars,
                ctrlVars, fieldVars, gestures>>

\* new Multiselect(workspace) for instance i, when its workspace has no
\* instance.
Construct(i) ==
  /\ prototype.phase[i] \in {"none", "disposed"}
  /\ prototype' = newMultiselect(prototype, i)
  /\ hist' = NoHist
  /\ UNCHANGED <<patchFrame, surfaceVars>>

\* Multiselect.init(options) of instance i with options.useDoubleClick and
\* options.bumpNeighbours as given.
MultiselectInit(i, useDoubleClick, bumpNeighbours) ==
  /\ prototype.phase[i] = "constructed"
  /\ prototype' = initPatches(prototype, i, useDoubleClick, bumpNeighbours)
  /\ controls_' = IF i = 1 THEN TRUE ELSE controls_
  /\ other' = IF i = 2 THEN [other EXCEPT !.present = TRUE] ELSE other
  /\ hist' = Observed("init", Null, {}, {}, {}, {}, FALSE)
  /\ UNCHANGED <<patchFrame, clickVars>>

\* Multiselect.dispose() of the instance of the second workspace.
OtherDispose ==
  /\ prototype.phase[2] = "initialized"
  /\ prototype' = disposePatches(prototype, 2)
  /\ other' = [other EXCEPT !.present = FALSE, !.mode = FALSE]
  /\ hist' = Observed("otherDispose", Null, {}, {}, {}, {}, FALSE)
  /\ UNCHANGED <<patchFrame, controls_, clickVars>>

NextPatch ==
  \/ \E i \in Instances : Construct(i)
  \/ \E i \in Instances, useDoubleClick \in BOOLEAN,
        bumpNeighbours \in BOOLEAN :
       MultiselectInit(i, useDoubleClick, bumpNeighbours)
  \/ PluginDispose
  \/ OtherDispose

SpecPatch == InitPatch /\ [][NextPatch]_vars

\* C33: when an instance has been disposed and no instance is initialized,
\* BlockSvg.prototype.bumpNeighbours and Gesture.prototype.handleWsStart are
\* the host's own implementations.
PatchesRestoredAfterDispose ==
  (/\ \E i \in Instances : prototype.phase[i] = "disposed"
   /\ \A i \in Instances : prototype.phase[i] # "initialized")
    => /\ prototype.bumpNeighbours = "host"
       /\ prototype.handleWsStart = "host"


(* -------------------- the SELECTED notification loop -------------------- *)
\* Clicks, rectangle signals and mode switches on one workspace; the host
\* delivers every SELECTED notification it has queued (weak fairness on the
\* listener).
InitLoop == InitMode /\ db = WorldPair /\ moveDrag

NextLoop ==
  \/ \E x \in Live(db) \cup {Null} : HostSetSelected(x)
  \/ SelectedEvent
  \/ EnableMultiselect
  \/ \E revert \in BOOLEAN : DisableMultiselect(revert)
  \/ \E x \in Live(db) : DragSelectSignal(x)

SpecLoop == InitLoop /\ [][NextLoop]_vars /\ WF_vars(SelectedEvent)

RememberedObjectOnlyAdded ==
  [][(inMultipleSelectionMode /\ hist'.op = "selectedMulti"
        /\ gestures' = gestures)
       => dragSelection \subseteq dragSelection']_vars


(* ---------------------- composite as native selection ------------------- *)
\* C36: whenever this workspace's composite is the native selection, the
\* Selection Set of the workspace has a member.
CompositeSelectedHasMembers ==
  selected = MultiDraggable => dragSelection # {}

\* ---- change events of the propagated writes ----

\* The host delivers the change event that block.setFieldValue fired for
\* the written block w: the event was made while the write group was
\* current, so it carries that group (the host fires no event for a write
\* that leaves the value as it was; the listener's test does not read the
\* value).
DeliverWritten(w, recordUndo) ==
  /\ changeEvent = NoEvent
  /\ w \in hist.events
  /\ \E order \in Perms(dragSelection) :
       LET e == [type |-> "change", blockId |-> w,
                 newValue |-> hist.newValue, recordUndo |-> recordUndo,
                 group |-> hist.writeGroup]
           r == eventListener_(e, db, dragSelection, multiFieldUpdate_,
                               group, nextGroup, order)
       IN /\ db' = r.db
          /\ nextGroup' = IF r.opened THEN nextGroup + 1 ELSE nextGroup
          /\ hist' = [op |-> "cascade", blockId |-> w,
                      newValue |-> hist.newValue,
                      preField |-> [i \in Ids |-> db[i].field],
                      sel |-> dragSelection,
                      applicable |-> propagates(e, dragSelection,
                                                multiFieldUpdate_),
                      eGroup |-> r.eGroup,
                      writeGroup |-> IF r.written = {} THEN hist.writeGroup
                                     ELSE r.writeGroup,
                      written |-> r.written, threw |-> r.threw,
                      within |-> hist.within,
                      events |-> (hist.events \ {w}) \cup r.written]
  /\ UNCHANGED <<fieldFrame, group, gestures, changeEvent>>

NextCascade ==
  \/ NextField
  \/ \E w \in Ids, recordUndo \in BOOLEAN : DeliverWritten(w, recordUndo)

SpecCascade == InitField /\ [][NextCascade]_vars

\* C37: propagating one field edit writes only other members of the
\* edited block's type, each at most once, and the change event of such a
\* write, delivered to the listener, propagates nothing: no field is
\* written again.
WritesDoNotCascade ==
  /\ hist.op = "propagate" =>
       /\ hist.written \subseteq
            {y \in hist.sel \ {hist.blockId} :
               db[y].type = db[hist.blockId].type}
       /\ hist.events = hist.written
  /\ hist.op = "cascade" =>
       /\ ~hist.applicable
       /\ hist.written = {}
       /\ \A i \in Ids : db[i].field = hist.preField[i]

\* The event of a propagated write reached the listener while propagation
\* was on, its block was a member and no group was open.
WriteEventWitness ==
  /\ hist.op = "cascade"
  /\ multiFieldUpdate_ /\ group = 0
  /\ hist.blockId \in dragSelection
  /\ hist.events = {}
  /\ db[hist.blockId].field = hist.newValue

\* ---- collapse and disable on nested members ----

\* WorldPair with block 1 and the block 2 in its input enabled or
\* disabled, expanded or collapsed.
NestedWorlds ==
  LabelWorlds \cup
    {[WorldPair EXCEPT ![1].collapsed = c1, ![2].collapsed = c2] :
       c1 \in BOOLEAN, c2 \in BOOLEAN}

InitNested ==
  /\ \E w \in NestedWorlds : Constructed(w)
  /\ hist = NoHist

NextNested ==
  \/ NextLabels
  \/ \E scope \in Live(db) : MenuCollapse(scope)

SpecNested == InitNested /\ [][NextNested]_vars

\* C38: the collapse / expand and the disable / enable commands leave
\* every member that has a selected ancestor as it was: neither its
\* collapsed nor its enabled state is changed.
NestedMemberUnchanged ==
  [][hist'.op \in {"collapse", "disable"} =>
       \A b \in Nested(db, dragSelection) :
         /\ db'[b].collapsed = db[b].collapsed
         /\ db'[b].enabled = db[b].enabled]_vars

\* ---- disposal mode of the bulk delete ----

\* Block 1 with block 2 stacked below it, and a free output block 3 with
\* the output block 4 in an input.
WorldRow ==
  [i \in Ids |->
     CASE i = 1 -> Block("T", Null, "none", TRUE, TRUE, FALSE, <<0, 0>>)
       [] i = 2 -> Block("T", 1, "next", TRUE, TRUE, FALSE, <<0, 1>>)
       [] i = 3 -> Block("U", Null, "none", TRUE, TRUE, TRUE, <<2, 0>>)
       [] i = 4 -> Block("U", 3, "input", TRUE, TRUE, TRUE, <<3, 0>>)
       [] OTHER -> NoObject]

\* User gestures in one run of the delete machine.
HealGestures == 5

InitHeal ==
  /\ \E w \in {WorldRow, WorldChain} : ConstructedAt(w, TRUE, NoLimit)
  /\ gestures = MaxGestures - HealGestures
  /\ hist = NoHist

NextHeal ==
  \/ \E x \in Live(db) \cup {Null} : HostSetSelected(x)
  \/ SelectedEvent
  \/ EnableMultiselect
  \/ \E revert \in BOOLEAN : DisableMultiselect(revert)
  \/ \E x \in Live(db) : DragSelectSignal(x)
  \/ \E scope \in Live(db) : MenuDelete(scope)
  \/ ShortcutDelete

SpecHeal == InitHeal /\ [][NextHeal]_vars

\* The blocks a delete command disposed by a request of their own.
Deleted(h) == {x \in h.acted : x \in Ids}

\* C39 as stated: a bulk delete removes a statement-style block together
\* with the stack below it, and an output-style block is healed: the
\* block in its input survives.
DeleteHealsOutputOnly ==
  [][hist'.op \in {"delete", "menuDelete"} =>
       \A x \in Deleted(hist') :
         IF db[x].kind = "block" /\ db[x].output
           THEN \A y \in Inner(db, x) : db'[y].live
           ELSE \A y \in Below(db, x) : ~db'[y].live]_vars

\* C39, amended: a bulk delete removes an output-style block with
\* everything connected under it (no healing), and a statement-style block
\* with the blocks in its inputs only: the block stacked below it survives
\* unless a request of its own deleted it, and ends under a live block or
\* at the top level.
DeleteHealsStacksOnly ==
  [][hist'.op \in {"delete", "menuDelete"} =>
       \A x \in Deleted(hist') :
         /\ ~db'[x].live
         /\ IF db[x].kind = "block" /\ db[x].output
              THEN \A y \in Below(db, x) : ~db'[y].live
              ELSE /\ \A y \in Inner(db, x) : ~db'[y].live
                   /\ LET n == getNextBlock(db, x)
                      IN (n # Null /\ n \notin Deleted(hist')) =>
                           /\ db'[n].live
                           /\ db'[n].parent # x
                           /\ db'[n].parent # Null =>
                                db'[db'[n].parent].live]_vars

\* One delete removed block 1, whose next block 2 stayed at the top level,
\* and the output block 3 together with the block 4 in its input.
StackHealedWitness ==
  /\ hist.op \in {"delete", "menuDelete"}
  /\ Deleted(hist) = {1, 3}
  /\ IsBlock(db, 2) /\ db[2].parent = Null
  /\ ~db[1].live /\ ~db[3].live /\ ~db[4].live

\* ---- double click ----

\* Pointer-downs, key presses and rectangle signals in one run of the
\* double-click machine.
ClickGestures == 5

\* setTimeout(callback, 500): the handle the host returns, one it has not
\* handed out for a timer that is still pending.
setTimeout(ts) ==
  IF ts = {} THEN 1 ELSE 1 + CHOOSE m \in ts : \A h \in ts : h <= m

clearTimeoutNever(ts, h) == ts

\* clearTimeout(handle)
clearTimeout(ts, h) ==
  ts \ {h}

\* maybeCollapse(block, blockState) of the wrapper; preCondition is the
\* block being movable on a workspace with options.collapse.
maybeCollapse(d, sel, block, blockState) ==
  IF IsBlock(d, block) /\ isMovable(d, block)
     /\ ~hasSelectedParent(d, sel, block, FALSE)
    THEN [d EXCEPT ![block].collapsed = blockState]
    ELSE d

\* The part of wrappedFunc after func.call(this, e, ws), for a gesture on a
\* block with the primary button outside multi-select mode; native is
\* Blockly.getSelected().  The result holds the workspace, the detector,
\* the host's timers and whether an event group was opened.
wrappedFunc(d, sel, native, pid, blk, ts) ==
  LET cleared == IF pid # 0 THEN clearTimeout(ts, pid) ELSE ts
      pending == [db |-> d, pid |-> setTimeout(cleared), blk |-> native,
                  ts |-> cleared \cup {setTimeout(cleared)},
                  grouped |-> FALSE]
  IN IF pid # 0 /\ IsBlock(d, native) /\ isMovable(d, native)
          /\ native = blk
       THEN [db |-> maybeCollapse(d, sel, native, ~d[native].collapsed),
             pid |-> 0, blk |-> blk, ts |-> cleared, grouped |-> TRUE]
     ELSE IF pid # 0 /\ native = MultiDraggable /\ sel # {}
       THEN LET notCollapsed ==
                  {id \in sel : /\ IsBlock(d, id)
                                /\ ~d[id].collapsed
                                /\ ~hasSelectedParent(d, sel, id, FALSE)}
                state == notCollapsed # {}
            IN [db |-> [i \in Ids |->
                          IF i \in sel
                            THEN maybeCollapse(d, sel, i, state)[i]
                            ELSE d[i]],
                pid |-> 0, blk |-> blk, ts |-> cleared, grouped |-> TRUE]
     ELSE pending

\* The state after construction and init with options.useDoubleClick.
InitClick ==
  /\ db \in {WorldPair, WorldFlags}
  /\ nextId = FirstFree(db)
  /\ selected = Null /\ lastSelectedElement_ = Null
  /\ mainWorkspace = TRUE /\ maxInstances = NoLimit
  /\ group = 0 /\ nextGroup = 1
  /\ pendingSelected = 0
  /\ dragSelection = {} /\ subDraggables = NoSubDraggables
  /\ highlighted = Highlit(subDraggables, selected)
  /\ prototype = initPatches(newMultiselect(Unpatched, 1), 1, TRUE, FALSE)
  /\ topSubDraggables = <<>> /\ mdConnectionDBList = <<>>
  /\ inGroup = FALSE /\ dragging = FALSE
  /\ inMultipleSelectionMode = FALSE
  /\ justUnselectedBlock_ = Null
  /\ inPasteShortcut = FALSE
  /\ hasDisableWorkspaceDrag_ = FALSE
  /\ moveDrag = TRUE /\ origMoveDrag = TRUE
  /\ controls_ = TRUE /\ other = NoSurface /\ Idle
  /\ dragSelect_ = FALSE /\ dragSelects = 0
  /\ copyData = <<>> /\ connectionDBList = <<>> /\ SingleTab
  /\ multiFieldUpdate_ = TRUE /\ changeEvent = NoEvent
  /\ gestures = MaxGestures - ClickGestures
  /\ hist = NoHist

\* Gesture.prototype.handleWsStart as wrapped by useDoubleClick_(true), for
\* a pointer-down with the primary button on block b: the host's handler
\* makes b, or outside multi-select mode the composite b is a member of, the
\* native selection; then the double-click detector runs.
HandleWsStart(b) ==
  /\ Gesture
  /\ prototype.handleWsStart = "wrapped"
  /\ IsBlock(db, b) /\ ~isShadow(db, b)
  /\ LET native == IF ~inMultipleSelectionMode /\ b \in DOMAIN subDraggables
                     THEN MultiDraggable ELSE b
         r == IF inMultipleSelectionMode
                THEN [db |-> db, pid |-> doubleClickPid_,
                      blk |-> doubleClickBlock_, ts |-> timers,
                      grouped |-> FALSE]
                ELSE wrappedFunc(db, dragSelection, native, doubleClickPid_,
                                 doubleClickBlock_, timers)
     IN /\ selected' = native
        /\ highlighted' = setSelectedHighlight(highlighted, subDraggables,
                                              selected, native)
        /\ pendingSelected' = Queue(pendingSelected, selected, native)
        /\ db' = r.db
        /\ doubleClickPid_' = r.pid
        /\ doubleClickBlock_' = r.blk
        /\ timers' = r.ts
        /\ nextGroup' = IF r.grouped THEN nextGroup + 1 ELSE nextGroup
        /\ group' = IF r.grouped THEN 0 ELSE group
        /\ hist' = Observed("pointerDown", b, {}, Nested(db, dragSelection),
                            {i \in Ids : r.db[i].collapsed # db[i].collapsed},
                            {}, FALSE)
  /\ UNCHANGED <<nextId, mainWorkspace, maxInstances, prototype,
                 dragSelection, subDraggables, dragVars, modeVars, clipVars,
                 ctrlVars, fieldVars, controls_, other>>

\* The callback of setTimeout(..., 500) runs: 500 ms have passed since the
\* pointer-down that started timer h.
DoubleClickTimeout(h) ==
  /\ h \in timers
  /\ timers' = timers \ {h}
  /\ doubleClickPid_' = 0
  /\ hist' = NoHist
  /\ UNCHANGED <<db, nextId, selected, mainWorkspace, maxInstances,
                 prototype, highlighted, group, nextGroup, pendingSelected,
                 dragSelection, subDraggables, dragVars, modeVars, clipVars,
                 ctrlVars, fieldVars, controls_, other, doubleClickBlock_,
                 gestures>>

NextClick ==
  \/ \E b \in Live(db) : HandleWsStart(b)
  \/ \E h \in timers : DoubleClickTimeout(h)
  \/ SelectedEvent
  \/ EnableMultiselect
  \/ \E revert \in BOOLEAN : DisableMultiselect(revert)
  \/ \E x \in Live(db) : DragSelectSignal(x)

SpecClick == InitClick /\ [][NextClick]_vars

====
